---------------------------- MODULE Spec2Model ----------------------------
(***************************************************************************)
(* A model of the Rust grammar of grammar.js as the parser generated from  *)
(* it runs: a shift/reduce engine whose choices between finishing a        *)
(* production and continuing a longer one are settled by the precedence    *)
(* and associativity annotations of the rules (prec, prec.left), and a     *)
(* lexer that offers only the tokens the current position admits.          *)
(*                                                                         *)
(* The input arrives one source atom at a time: Scan draws the next atom   *)
(* and turns it into the token the position admits; the other actions are  *)
(* the parser's steps on that lookahead.                                   *)
(***************************************************************************)
EXTENDS Naturals, Integers, Sequences, FiniteSets, TLC

VARIABLES
  read,    \* the source atoms read so far, in order
  la,      \* the lookahead token <<symbol, text>>, or NoTok before Scan
  stack,   \* productions in progress, innermost last
  cur,     \* the node just completed, or Nil when an operand is awaited
  nops,    \* operator atoms read so far
  pc       \* "run", "accept" or "error"

vars == <<read, la, stack, cur, nops, pc>>

----------------------------------------------------------------------------
(* Bounds of the exploration *)

\* operator atoms (prefix, infix, postfix, opening bracket) per input
MaxOps == 2

----------------------------------------------------------------------------
(* Trees: a node is <<kind, operator text, children>> *)

Nil == <<>>
NoTok == <<>>

Node(kind, op, kids) == <<kind, op, kids>>
Kind(n) == n[1]
Op(n) == n[2]
Kids(n) == n[3]

Top == stack[Len(stack)]
Pop == SubSeq(stack, 1, Len(stack) - 1)

----------------------------------------------------------------------------
(* The precedence table, grammar.js PREC *)

\* the table with multiplicative and additive exchanged
PREC_AdditiveAboveMultiplicative ==
  [call |-> 15, field |-> 14, try |-> 13, unary |-> 12, cast |-> 11,
   multiplicative |-> 9, additive |-> 10, shift |-> 8, bitand |-> 7,
   bitxor |-> 6, bitor |-> 5, comparative |-> 4, and |-> 3, or |-> 2,
   range |-> 1, assign |-> 0, closure |-> -1]

\* the table with try and unary exchanged
PREC_UnaryAboveTry ==
  [call |-> 15, field |-> 14, try |-> 12, unary |-> 13, cast |-> 11,
   multiplicative |-> 10, additive |-> 9, shift |-> 8, bitand |-> 7,
   bitxor |-> 6, bitor |-> 5, comparative |-> 4, and |-> 3, or |-> 2,
   range |-> 1, assign |-> 0, closure |-> -1]

PREC ==
  [call |-> 15, field |-> 14, try |-> 13, unary |-> 12, cast |-> 11,
   multiplicative |-> 10, additive |-> 9, shift |-> 8, bitand |-> 7,
   bitxor |-> 6, bitor |-> 5, comparative |-> 4, and |-> 3, or |-> 2,
   range |-> 1, assign |-> 0, closure |-> -1]

(* Operator classes of binary_expression: the table of [precedence, operator] *)
table ==
  << <<"and", {"&&"}>>,
     <<"or", {"||"}>>,
     <<"bitand", {"&"}>>,
     <<"bitor", {"|"}>>,
     <<"bitxor", {"^"}>>,
     <<"comparative", {"==", "!=", "<", "<=", ">", ">="}>>,
     <<"shift", {"<<", ">>"}>>,
     <<"additive", {"+", "-"}>>,
     <<"multiplicative", {"*", "/", "%"}>> >>

BinaryOps == UNION {table[i][2] : i \in 1..Len(table)}

BinaryClass(op) == table[CHOOSE i \in 1..Len(table) : op \in table[i][2]][1]

CompoundOps == {"+=", "-=", "*=", "/=", "%=", "&=", "|=", "^=", "<<=", ">>="}

RangeOps == {"..", "...", "..="}

UnaryOps == {"-", "*", "!"}

(* The precedence class a rule is declared with (the PREC key of its prec call) *)
RuleClass(kind, op) ==
  CASE kind = "call_expression" -> "call"
    [] kind = "arguments" -> "call"
    [] kind = "index_expression" -> "call"
    [] kind = "field_expression" -> "field"
    [] kind = "try_expression" -> "try"
    [] kind = "unary_expression" -> "unary"
    [] kind = "reference_expression" -> "unary"
    [] kind = "type_cast_expression" -> "cast"
    [] kind = "binary_expression" -> BinaryClass(op)
    [] kind = "range_expression" -> "range"
    [] kind = "assignment_expression" -> "assign"
    [] kind = "compound_assignment_expr" -> "assign"
    [] kind = "closure_expression" -> "closure"
    [] OTHER -> "none"

RulePrec(kind, op) == PREC[RuleClass(kind, op)]

\* binary_expression declared with prec.right
RuleAssoc_BinaryRight(kind) ==
  IF kind = "binary_expression" THEN "right"
  ELSE IF kind \in {"assignment_expression", "compound_assignment_expr",
                    "type_cast_expression", "range_expression"}
  THEN "left" ELSE "none"

(* prec.left marks a rule left-associative; plain prec leaves it without one *)
RuleAssoc(kind) ==
  IF kind \in {"binary_expression", "assignment_expression",
               "compound_assignment_expr", "type_cast_expression",
               "range_expression"}
  THEN "left" ELSE "none"

(* The rule a token continues when it follows a finished expression *)
ContinuedKind(sym) ==
  CASE sym \in BinaryOps -> "binary_expression"
    [] sym = "=" -> "assignment_expression"
    [] sym \in CompoundOps -> "compound_assignment_expr"
    [] sym \in RangeOps -> "range_expression"
    [] sym = "?" -> "try_expression"
    [] sym = "." -> "field_expression"
    [] sym = "as" -> "type_cast_expression"
    [] sym = "(" -> "call_expression"
    [] sym = "[" -> "index_expression"
    [] OTHER -> "none"

Continues(sym) == ContinuedKind(sym) # "none"

(* A finished production against a lookahead that would extend its last     *)
(* operand: the higher precedence wins, and on a tie the associativity of   *)
(* the finished rule decides (left: finish; right: continue).               *)
Decide(kind, op, sym) ==
  LET r == RulePrec(kind, op)
      s == RulePrec(ContinuedKind(sym), sym)
  IN  IF r > s THEN "reduce"
      ELSE IF r < s THEN "shift"
      ELSE IF RuleAssoc(kind) = "left" THEN "reduce"
      ELSE IF RuleAssoc(kind) = "right" THEN "shift"
      ELSE "conflict"
----------------------------------------------------------------------------
(* The expression engine: _expression, grammar.js "Section - Expressions" *)

\* identifiers are named by their order of appearance
Names == <<"a", "b", "c", "d", "e", "f", "g", "h">>

\* the source atoms the exploration draws from
Atoms ==
  {"id", "-", "*", "!", "&", "||", "..", "..=", "&&", "|", "^", "==", "<",
   ">", ">>", "+", "=", "+=", "?", ".", "as", "::", "(", ")", "[", "]", ";"}

\* kinds of nodes that are types, not expressions
TypeKinds == {"type_name", "generic_type"}

IsExpr(n) == n # Nil /\ Kind(n) \notin TypeKinds
IsType(n) == n # Nil /\ Kind(n) \in TypeKinds

\* productions that end with an operand: they finish when the operand does
Reducible ==
  {"unary_expression", "reference_expression", "closure_expression",
   "range_expression", "binary_expression", "assignment_expression",
   "compound_assignment_expr"}

\* productions in progress whose next child is an expression
ExprAwaiting ==
  Reducible \cup {"parenthesized_expression", "arguments", "index_expression"}

TopKind == IF stack = <<>> THEN "none" ELSE Kind(Top)

AwaitExpr == cur = Nil /\ (stack = <<>> \/ TopKind \in ExprAwaiting)

\* after `expr ..` or a leading `..` the range is already a whole production
OpenRange == cur = Nil /\ TopKind = "range_expression" /\ Op(Top) = ".."

\* type_arguments is admitted after `::` of a generic_function and after a
\* type name (generic_type)
TypeArgsValid ==
  \/ cur = Nil /\ TopKind = "generic_function"
  \/ IsType(cur) /\ Kind(cur) = "type_name"
       /\ TopKind \in {"type_cast_expression", "type_arguments"}

Idents(r) == Len(SelectSeq(r, LAMBDA x : \E i \in 1..Len(Names) : Names[i] = x))

\* type_arguments admitted after any name, as generic_type is among types
Lex_TypeArgumentsAfterName(atom) ==
  CASE atom = "id" -> <<"identifier", Names[Idents(read) + 1]>>
    [] atom = "<" -> IF TypeArgsValid \/ (IsExpr(cur) /\ Kind(cur) = "name")
                     THEN <<"<targs", "<">> ELSE <<"<", "<">>
    [] atom = "||" -> IF AwaitExpr /\ ~OpenRange
                      THEN <<"closure_parameters", "||">>
                      ELSE <<"||", "||">>
    [] atom = "&&" -> IF AwaitExpr /\ ~OpenRange
                      THEN <<"&", "&&">>
                      ELSE <<"&&", "&&">>
    [] OTHER -> <<atom, atom>>

(* The token an atom is read as at the current position.  type_arguments   *)
(* opens with token(prec(1, '<')), which the lexer prefers to the           *)
(* comparison '<' wherever the position admits it; `||` is one token where  *)
(* the binary operator is admitted and the two bars of an empty             *)
(* closure_parameters where only an expression can start; likewise `&&` is  *)
(* two `&` of reference_expression there.                                   *)
Lex(atom) ==
  CASE atom = "id" -> <<"identifier", Names[Idents(read) + 1]>>
    [] atom = "<" -> IF TypeArgsValid THEN <<"<targs", "<">> ELSE <<"<", "<">>
    [] atom = "||" -> IF AwaitExpr /\ ~OpenRange
                      THEN <<"closure_parameters", "||">>
                      ELSE <<"||", "||">>
    [] atom = "&&" -> IF AwaitExpr /\ ~OpenRange
                      THEN <<"&", "&&">>
                      ELSE <<"&&", "&&">>
    [] OTHER -> <<atom, atom>>

Sym == la[1]
Txt == la[2]

\* atoms that use up the operator budget at the current position
Closers == {")", "]", ";"}
CountsAsOp(atom) ==
  /\ atom \notin Closers \cup {"id"}
  /\ ~(atom = "<" /\ cur = Nil /\ TopKind = "generic_function")
  /\ ~(atom = ">" /\ TopKind = "type_arguments")

\* valid continuations whose rules are outside the fragment explored here:
\* closure parameters, array_expression, bracketed_type and `::` paths,
\* scoped names, the type forms other than a type name, macro_invocation
Outside(atom) ==
  \/ /\ AwaitExpr /\ ~(OpenRange /\ Continues(atom))
     /\ atom \in {"|", "[", "<", "::"}
  \/ cur = Nil /\ TopKind = "generic_function" /\ atom = "id"
  \/ /\ cur = Nil /\ TopKind \in {"type_cast_expression", "type_arguments"}
     /\ atom \in {"&", "&&", "*", "(", "[", "!", "-", "<", "::"}
  \/ IsType(cur) /\ atom \in {"(", "::"}
  \/ IsType(cur) /\ TopKind = "type_arguments" /\ atom \in {"+", "=", ">>"}
  \/ IsExpr(cur) /\ Kind(cur) = "generic_function" /\ atom = "::"
  \/ IsExpr(cur) /\ Kind(cur) = "name" /\ atom = "!"

Scan ==
  /\ pc = "run" /\ la = NoTok
  /\ \E atom \in Atoms :
       /\ ~Outside(atom)
       /\ CountsAsOp(atom) => nops < MaxOps
       /\ atom = "id" => Idents(read) < Len(Names)
       /\ la' = Lex(atom)
       /\ read' = Append(read, IF atom = "id" THEN Lex(atom)[2] ELSE atom)
       /\ nops' = IF CountsAsOp(atom) THEN nops + 1 ELSE nops
  /\ UNCHANGED <<stack, cur, pc>>

Step == pc = "run" /\ la # NoTok

Consume == la' = NoTok /\ UNCHANGED <<read, nops, pc>>
Keep == UNCHANGED <<read, nops, pc, la>>

\* name in expression position
CanShiftOperand == AwaitExpr /\ Sym = "identifier"
ShiftOperand ==
  /\ Step /\ CanShiftOperand
  /\ cur' = Node("name", Txt, <<>>)
  /\ UNCHANGED stack /\ Consume

\* the rule a token opens where an expression can start
PrefixKind(sym) ==
  CASE sym \in UnaryOps -> "unary_expression"
    [] sym = "&" -> "reference_expression"
    [] sym = "closure_parameters" -> "closure_expression"
    [] sym = ".." -> "range_expression"
    [] OTHER -> "none"

\* unary_expression, reference_expression, closure_expression, `..` expr
CanShiftPrefix ==
  /\ AwaitExpr /\ PrefixKind(Sym) # "none"
  /\ ~(OpenRange /\ Continues(Sym))
ShiftPrefix ==
  /\ Step /\ CanShiftPrefix
  /\ stack' = stack
       \o (IF Txt = "&&" THEN <<Node("reference_expression", "&", <<>>)>>
           ELSE <<>>)
       \o <<Node(PrefixKind(Sym), Sym, IF Sym = ".." THEN <<Nil>> ELSE <<>>)>>
  /\ UNCHANGED cur /\ Consume

\* the finished rule on top of the stack yields to the lookahead
Yields(sym) ==
  IF TopKind \in Reducible THEN Decide(TopKind, Op(Top), sym) = "shift"
  ELSE TRUE

\* binary_expression, assignment_expression, compound_assignment_expr and
\* range_expression take the finished expression as their left operand
InfixOps == BinaryOps \cup {"="} \cup CompoundOps \cup RangeOps
CanShiftInfix == IsExpr(cur) /\ Sym \in InfixOps /\ Yields(Sym)
ShiftInfix ==
  /\ Step /\ CanShiftInfix
  /\ stack' = Append(stack, Node(ContinuedKind(Sym), Txt, <<cur>>))
  /\ cur' = Nil /\ Consume

\* try_expression
CanShiftTry == IsExpr(cur) /\ Sym = "?" /\ Yields(Sym)
ShiftTry ==
  /\ Step /\ CanShiftTry
  /\ cur' = Node("try_expression", "?", <<cur>>)
  /\ UNCHANGED stack /\ Consume

\* field_expression: value `.` field
CanShiftDot == IsExpr(cur) /\ Sym = "." /\ Yields(Sym)
ShiftDot ==
  /\ Step /\ CanShiftDot
  /\ stack' = Append(stack, Node("field_expression", ".", <<cur>>))
  /\ cur' = Nil /\ Consume

CanShiftFieldName ==
  cur = Nil /\ TopKind = "field_expression" /\ Sym = "identifier"
ShiftFieldName ==
  /\ Step /\ CanShiftFieldName
  /\ cur' = Node("field_expression", ".",
                 Append(Kids(Top), Node("field_name", Txt, <<>>)))
  /\ stack' = Pop /\ Consume

\* type_cast_expression: value `as` type
CanShiftAs == IsExpr(cur) /\ Sym = "as" /\ Yields(Sym)
ShiftAs ==
  /\ Step /\ CanShiftAs
  /\ stack' = Append(stack, Node("type_cast_expression", "as", <<cur>>))
  /\ cur' = Nil /\ Consume

\* _type_name where a type is awaited
CanShiftTypeName ==
  /\ cur = Nil /\ TopKind \in {"type_cast_expression", "type_arguments"}
  /\ Sym = "identifier"
ShiftTypeName ==
  /\ Step /\ CanShiftTypeName
  /\ cur' = Node("type_name", Txt, <<>>)
  /\ UNCHANGED stack /\ Consume

\* the cast is finished once its type is: nothing that follows an
\* expression can extend a type except the `<` of its type_arguments
CanReduceCast ==
  /\ IsType(cur) /\ TopKind = "type_cast_expression"
  /\ Sym \in Closers \/ Continues(Sym)
ReduceCast ==
  /\ Step /\ CanReduceCast
  /\ cur' = Node("type_cast_expression", "as", Append(Kids(Top), cur))
  /\ stack' = Pop /\ Keep

\* generic_function: function `::` type_arguments
CanShiftTurbofish ==
  /\ IsExpr(cur) /\ Kind(cur) \in {"name", "field_expression"}
  /\ Sym = "::"
ShiftTurbofish ==
  /\ Step /\ CanShiftTurbofish
  /\ stack' = Append(stack, Node("generic_function", "::", <<cur>>))
  /\ cur' = Nil /\ Consume

\* type_arguments: `<` after `::`, or after the type name of a generic_type
CanOpenTypeArguments == Sym = "<targs" /\ TypeArgsValid
OpenTypeArguments ==
  /\ Step /\ CanOpenTypeArguments
  /\ stack' = (IF cur = Nil THEN stack
               ELSE Append(stack, Node("generic_type", "", <<cur>>)))
              \o <<Node("type_arguments", "<", <<>>)>>
  /\ cur' = Nil /\ Consume

CanCloseTypeArguments ==
  IsType(cur) /\ TopKind = "type_arguments" /\ Sym = ">"
CloseTypeArguments ==
  /\ Step /\ CanCloseTypeArguments
  /\ LET args == Node("type_arguments", "<", Append(Kids(Top), cur))
         below == stack[Len(stack) - 1]
     IN  cur' = Node(Kind(below), Op(below), Append(Kids(below), args))
  /\ stack' = SubSeq(stack, 1, Len(stack) - 2) /\ Consume
\* parenthesized_expression opens where an expression can start
CanOpenParen == AwaitExpr /\ Sym = "("
OpenParen ==
  /\ Step /\ CanOpenParen
  /\ stack' = Append(stack, Node("parenthesized_expression", "(", <<>>))
  /\ UNCHANGED cur /\ Consume

\* `(` expr `)`, and unit_expression when nothing stands between
CanCloseParen ==
  /\ TopKind = "parenthesized_expression" /\ Sym = ")"
  /\ cur = Nil \/ IsExpr(cur)
CloseParen ==
  /\ Step /\ CanCloseParen
  /\ cur' = IF cur = Nil THEN Node("unit_expression", "()", <<>>)
            ELSE Node("parenthesized_expression", "(", <<cur>>)
  /\ stack' = Pop /\ Consume

\* call_expression: function is an _expression_except_range
CanOpenArguments ==
  /\ IsExpr(cur) /\ Kind(cur) # "range_expression"
  /\ Sym = "(" /\ Yields(Sym)
OpenArguments ==
  /\ Step /\ CanOpenArguments
  /\ stack' = Append(stack, Node("arguments", "(", <<cur>>))
  /\ cur' = Nil /\ Consume

CanCloseArguments ==
  /\ TopKind = "arguments" /\ Sym = ")"
  /\ cur = Nil \/ IsExpr(cur)
CloseArguments ==
  /\ Step /\ CanCloseArguments
  /\ cur' = Node("call_expression", "(",
                 <<Kids(Top)[1],
                   Node("arguments", "(",
                        IF cur = Nil THEN <<>> ELSE <<cur>>)>>)
  /\ stack' = Pop /\ Consume

\* index_expression
CanOpenIndex == IsExpr(cur) /\ Sym = "[" /\ Yields(Sym)
OpenIndex ==
  /\ Step /\ CanOpenIndex
  /\ stack' = Append(stack, Node("index_expression", "[", <<cur>>))
  /\ cur' = Nil /\ Consume

CanCloseIndex == TopKind = "index_expression" /\ Sym = "]" /\ IsExpr(cur)
CloseIndex ==
  /\ Step /\ CanCloseIndex
  /\ cur' = Node("index_expression", "[", Append(Kids(Top), cur))
  /\ stack' = Pop /\ Consume

\* the production on top of the stack is finished by the operand just parsed
CanReduce ==
  /\ IsExpr(cur) /\ TopKind \in Reducible
  /\ \/ Sym \in Closers
     \/ Continues(Sym) /\ Decide(TopKind, Op(Top), Sym) = "reduce"
Reduce ==
  /\ Step /\ CanReduce
  /\ cur' = Node(TopKind, Op(Top), Append(Kids(Top), cur))
  /\ stack' = Pop /\ Keep

\* range_expression without a right operand (`expr ..`, `..`): the rule is
\* prec.left, so against a token that can follow an expression it is
\* finished rather than continued into its right operand
CanReduceOpenRange ==
  OpenRange /\ (Sym \in Closers \/ (Continues(Sym) /\ Sym # "("))
ReduceOpenRange ==
  /\ Step /\ CanReduceOpenRange
  /\ cur' = Node("range_expression", "..", Append(Kids(Top), Nil))
  /\ stack' = Pop /\ Keep

\* expression_statement: _expression `;`
CanAccept == IsExpr(cur) /\ stack = <<>> /\ Sym = ";"
Accept ==
  /\ Step /\ CanAccept
  /\ pc' = "accept" /\ la' = NoTok
  /\ UNCHANGED <<read, nops, stack, cur>>

\* no production of the fragment admits the lookahead here
Error ==
  /\ Step
  /\ ~(\/ CanShiftOperand \/ CanShiftPrefix \/ CanShiftInfix \/ CanShiftTry
       \/ CanShiftDot \/ CanShiftFieldName \/ CanShiftAs \/ CanShiftTypeName
       \/ CanReduceCast \/ CanShiftTurbofish \/ CanOpenTypeArguments
       \/ CanCloseTypeArguments \/ CanOpenParen \/ CanCloseParen
       \/ CanOpenArguments \/ CanCloseArguments \/ CanOpenIndex
       \/ CanCloseIndex \/ CanReduce \/ CanReduceOpenRange \/ CanAccept)
  /\ pc' = "error"
  /\ UNCHANGED <<read, la, nops, stack, cur>>

Init ==
  /\ read = <<>> /\ la = NoTok /\ stack = <<>> /\ cur = Nil
  /\ nops = 0 /\ pc = "run"

Next ==
  \/ Scan
  \/ ShiftOperand
  \/ ShiftPrefix
  \/ ShiftInfix
  \/ ShiftTry
  \/ ShiftDot
  \/ ShiftFieldName
  \/ ShiftAs
  \/ ShiftTypeName
  \/ ReduceCast
  \/ ShiftTurbofish
  \/ OpenTypeArguments
  \/ CloseTypeArguments
  \/ OpenParen
  \/ CloseParen
  \/ OpenArguments
  \/ CloseArguments
  \/ OpenIndex
  \/ CloseIndex
  \/ Reduce
  \/ ReduceOpenRange
  \/ Accept
  \/ Error

Spec == Init /\ [][Next]_vars
----------------------------------------------------------------------------
(* The macro sub-grammar: macro_rule (token_tree_pattern `=>` token_tree)   *)
(* and macro_invocation (delim_token_tree).  The same parser state is used: *)
(* stack holds the token trees in progress, each with its opening           *)
(* delimiter as op; cur holds a metavariable whose production is not yet    *)
(* decided.                                                                 *)

MaxTokens == 4

\* the source atoms the exploration draws from
MacroAtoms ==
  {"(", ")", "[", "]", "$", "$x", ":", "expr", ",", "+", "*", "=>"}

Openers == {"(", "[", "{"}
Closer(open) == CASE open = "(" -> ")" [] open = "[" -> "]" [] open = "{" -> "}"
ClosingDelims == {")", "]", "}"}

\* a fragment kind left out of the list
fragment_specifier_WithoutExpr ==
  {"block", "ident", "item", "lifetime", "literal", "meta", "pat",
   "path", "stmt", "tt", "ty", "vis"}

fragment_specifier ==
  {"block", "expr", "ident", "item", "lifetime", "literal", "meta", "pat",
   "path", "stmt", "tt", "ty", "vis"}

\* choice('+', '*', '?') ending a repetition
RepetitionOps == {"+", "*", "?"}

PatternKinds == {"token_tree_pattern", "token_repetition_pattern"}
TemplateKinds == {"token_tree", "token_repetition"}
RepetitionKinds == {"token_repetition_pattern", "token_repetition"}
TreeKinds == {"token_tree_pattern", "token_tree", "delim_token_tree"}

\* the side of a macro_rule the parser is in: left until `=>`
InPattern ==
  IF TopKind = "macro_rule" THEN Op(Top) = ""
  ELSE TopKind \in PatternKinds \cup {"token_binding_pattern"}
InInvocation == TopKind \in {"macro_invocation", "delim_token_tree"}

\* a tree or repetition whose contents are being read
InContents ==
  IF TopKind \in RepetitionKinds THEN Op(Top) = "(" ELSE TopKind \in TreeKinds

\* after the `)` of a repetition: optional(/[^+*?]+/), choice('+', '*', '?')
AfterRepetition == TopKind \in RepetitionKinds /\ Op(Top) = ")"

\* after `$` of a repetition
AfterDollar == TopKind \in RepetitionKinds /\ Op(Top) = "$"

\* the root production awaits a token tree
AwaitTree ==
  IF TopKind = "macro_rule"
  THEN Len(Kids(Top)) = (IF Op(Top) = "" THEN 0 ELSE 1)
  ELSE TopKind = "macro_invocation" /\ Kids(Top) = <<>>

\* the root production has all its children
RootDone ==
  IF TopKind = "macro_rule" THEN Len(Kids(Top)) = 2
  ELSE TopKind = "macro_invocation" /\ Len(Kids(Top)) = 1

\* a metavariable has been read and the next token decides its production
Pending == cur # Nil

(* The token an atom is read as.  After the `)` of a repetition only the   *)
(* separator pattern and the three operators are admitted, and the pattern  *)
(* matches any text without `+`, `*`, `?`, delimiters included.  The        *)
(* metavariable token is admitted in the definition grammar only; in an     *)
(* invocation `$x` is `$` followed by a name.                               *)
LexMacro(atom) ==
  IF AfterRepetition
  THEN IF atom \in RepetitionOps THEN <<"op", atom>>
       ELSE <<"separator", atom>>
  ELSE IF atom = "$x"
  THEN IF InInvocation THEN <<"$name", atom>> ELSE <<"metavariable", atom>>
  ELSE IF atom \in Openers \cup ClosingDelims \cup {"$"} THEN <<atom, atom>>
  ELSE IF atom = "=>" /\ TopKind = "macro_rule" THEN <<"=>", atom>>
  ELSE IF atom = ":" /\ Pending THEN <<":", atom>>
  ELSE IF TopKind = "token_binding_pattern" /\ atom \in fragment_specifier
  THEN <<"fragment_specifier", atom>>
  ELSE <<"token", atom>>

\* atoms the grammar leaves no alternative to, or that close what is open,
\* are not counted against the input budget
Uncounted(atom) ==
  IF AfterRepetition THEN atom \in RepetitionOps
  ELSE IF AfterDollar THEN atom = "("
  ELSE IF TopKind = "macro_rule" THEN atom = "=>"
  ELSE IF TopKind = "token_binding_pattern" THEN TRUE
  ELSE IF Pending /\ atom = ":" THEN TRUE
  ELSE atom \in ClosingDelims

ScanMacro ==
  /\ pc = "run" /\ la = NoTok /\ ~RootDone
  /\ \E atom \in MacroAtoms :
       /\ ~Uncounted(atom) => nops < MaxTokens
       /\ la' = LexMacro(atom)
       /\ read' = Append(read, atom)
       /\ nops' = IF Uncounted(atom) THEN nops ELSE nops + 1
  /\ UNCHANGED <<stack, cur, pc>>

\* the production in progress gets one more child
AddKid(s, n) ==
  [s EXCEPT ![Len(s)] = Node(Kind(s[Len(s)]), Op(s[Len(s)]),
                             Append(Kids(s[Len(s)]), n))]

\* the kind of token tree and of repetition each grammar nests
TreeKind ==
  IF InInvocation THEN "delim_token_tree"
  ELSE IF InPattern THEN "token_tree_pattern" ELSE "token_tree"
RepetitionKind ==
  IF InPattern THEN "token_repetition_pattern" ELSE "token_repetition"

\* delim_token_tree is aliased to token_tree
NodeKind(kind) == IF kind = "delim_token_tree" THEN "token_tree" ELSE kind

CanOpenTokenTree ==
  ~Pending /\ Sym \in Openers /\ (IF AwaitTree THEN TRUE ELSE InContents)
OpenTokenTree ==
  /\ Step /\ CanOpenTokenTree
  /\ stack' = Append(stack, Node(TreeKind, Sym, <<>>))
  /\ UNCHANGED cur /\ Consume

\* a token tree closes with the delimiter that matches its opening one
CanCloseTokenTree ==
  ~Pending /\ TopKind \in TreeKinds /\ Sym = Closer(Op(Top))
CloseTokenTree ==
  /\ Step /\ CanCloseTokenTree
  /\ stack' = AddKid(Pop, Node(NodeKind(TopKind), Op(Top), Kids(Top)))
  /\ UNCHANGED cur /\ Consume

\* `$` opens a repetition in the definition grammar
CanShiftDollar == ~Pending /\ InContents /\ ~InInvocation /\ Sym = "$"
ShiftDollar ==
  /\ Step /\ CanShiftDollar
  /\ stack' = Append(stack, Node(RepetitionKind, "$", <<>>))
  /\ UNCHANGED cur /\ Consume

CanOpenRepetition == AfterDollar /\ Sym = "("
OpenRepetition ==
  /\ Step /\ CanOpenRepetition
  /\ stack' = [stack EXCEPT ![Len(stack)] = Node(TopKind, "(", <<>>)]
  /\ UNCHANGED cur /\ Consume

CanCloseRepetition ==
  ~Pending /\ TopKind \in RepetitionKinds /\ Op(Top) = "(" /\ Sym = ")"
CloseRepetition ==
  /\ Step /\ CanCloseRepetition
  /\ stack' = [stack EXCEPT ![Len(stack)] = Node(TopKind, ")", Kids(Top))]
  /\ UNCHANGED cur /\ Consume

\* optional(/[^+*?]+/): the separator is the whole run up to the operator
IsSeparator(n) == Kind(n) = "separator"
HasSeparator(kids) == kids # <<>> /\ IsSeparator(kids[Len(kids)])
CanShiftSeparator == AfterRepetition /\ Sym = "separator"
ShiftSeparator ==
  /\ Step /\ CanShiftSeparator
  /\ LET kids == Kids(Top)
         k == Len(kids)
     IN  stack' = [stack EXCEPT ![Len(stack)] =
           Node(TopKind, ")",
                IF HasSeparator(kids)
                THEN [kids EXCEPT ![k] =
                        Node("separator", Append(Op(kids[k]), Txt), <<>>)]
                ELSE Append(kids, Node("separator", <<Txt>>, <<>>)))]
  /\ UNCHANGED cur /\ Consume

\* choice('+', '*', '?')
CanShiftRepetitionOp == AfterRepetition /\ Sym = "op"
ShiftRepetitionOp ==
  /\ Step /\ CanShiftRepetitionOp
  /\ stack' = AddKid(Pop, Node(TopKind, Txt, Kids(Top)))
  /\ UNCHANGED cur /\ Consume

\* `$` left out of the tokens of an invocation
LeafSyms_WithoutDollar == {"token"}

\* _non_special_token; in an invocation also `$`
LeafSyms == IF InInvocation THEN {"token", "$", "$name"} ELSE {"token"}
Leaves ==
  IF Sym = "$name"
  THEN <<Node("token", "$", <<>>), Node("name", "x", <<>>)>>
  ELSE <<Node("token", Txt, <<>>)>>
CanShiftToken == ~Pending /\ InContents /\ Sym \in LeafSyms
ShiftToken ==
  /\ Step /\ CanShiftToken
  /\ stack' = [stack EXCEPT ![Len(stack)] =
                 Node(TopKind, Op(Top), Kids(Top) \o Leaves)]
  /\ UNCHANGED cur /\ Consume

\* metavariable; in a pattern the next token decides between the
\* metavariable alone and a token_binding_pattern
CanShiftMetavariable == ~Pending /\ InContents /\ Sym = "metavariable"
ShiftMetavariable ==
  /\ Step /\ CanShiftMetavariable
  /\ IF InPattern
     THEN cur' = Node("metavariable", Txt, <<>>) /\ UNCHANGED stack
     ELSE stack' = AddKid(stack, Node("metavariable", Txt, <<>>))
          /\ UNCHANGED cur
  /\ Consume

\* token_binding_pattern is prec(1): `:` after a metavariable continues it
token_binding_prec == 1
CanShiftBinding == Pending /\ Sym = ":" /\ token_binding_prec > 0
ShiftBinding ==
  /\ Step /\ CanShiftBinding
  /\ stack' = Append(stack, Node("token_binding_pattern", ":", <<cur>>))
  /\ cur' = Nil /\ Consume

CanReduceMetavariable == Pending /\ ~CanShiftBinding
ReduceMetavariable ==
  /\ Step /\ CanReduceMetavariable
  /\ stack' = AddKid(stack, cur)
  /\ cur' = Nil
  /\ la' = (IF Sym = ":" THEN <<"token", ":">> ELSE la)
  /\ UNCHANGED <<read, nops, pc>>

CanShiftFragment ==
  TopKind = "token_binding_pattern" /\ Sym = "fragment_specifier"
ShiftFragment ==
  /\ Step /\ CanShiftFragment
  /\ stack' = AddKid(Pop, Node("token_binding_pattern", ":",
                 Append(Kids(Top), Node("fragment_specifier", Txt, <<>>))))
  /\ UNCHANGED cur /\ Consume

\* macro_rule: left `=>` right
CanShiftArrow ==
  TopKind = "macro_rule" /\ Op(Top) = "" /\ Len(Kids(Top)) = 1 /\ Sym = "=>"
ShiftArrow ==
  /\ Step /\ CanShiftArrow
  /\ stack' = [stack EXCEPT ![Len(stack)] = Node(TopKind, "=>", Kids(Top))]
  /\ UNCHANGED cur /\ Consume

AcceptMacro ==
  /\ pc = "run" /\ la = NoTok /\ RootDone
  /\ cur' = Top /\ stack' = <<>> /\ pc' = "accept"
  /\ UNCHANGED <<read, la, nops>>

MacroError ==
  /\ Step
  /\ ~CanOpenTokenTree /\ ~CanCloseTokenTree /\ ~CanShiftDollar
  /\ ~CanOpenRepetition /\ ~CanCloseRepetition /\ ~CanShiftSeparator
  /\ ~CanShiftRepetitionOp /\ ~CanShiftToken /\ ~CanShiftMetavariable
  /\ ~CanShiftBinding /\ ~CanReduceMetavariable /\ ~CanShiftFragment
  /\ ~CanShiftArrow
  /\ pc' = "error"
  /\ UNCHANGED <<read, la, nops, stack, cur>>

MacroRoots ==
  {Node("macro_rule", "", <<>>), Node("macro_invocation", "", <<>>)}

InitMacro ==
  /\ read = <<>> /\ la = NoTok /\ cur = Nil /\ nops = 0 /\ pc = "run"
  /\ \E root \in MacroRoots : stack = <<root>>

NextMacro ==
  \/ ScanMacro
  \/ OpenTokenTree
  \/ CloseTokenTree
  \/ ShiftDollar
  \/ OpenRepetition
  \/ CloseRepetition
  \/ ShiftSeparator
  \/ ShiftRepetitionOp
  \/ ShiftToken
  \/ ShiftMetavariable
  \/ ShiftBinding
  \/ ReduceMetavariable
  \/ ShiftFragment
  \/ ShiftArrow
  \/ AcceptMacro
  \/ MacroError

SpecMacro == InitMacro /\ [][NextMacro]_vars
----------------------------------------------------------------------------
(* The file level: source_file, the statements and the extras.  Nodes      *)
(* carry byte ranges; stack holds the nodes in progress, cur the           *)
(* expression (and the comments after it) whose statement is not yet       *)
(* decided, and at the end the root.                                       *)

MaxInput == 5

\* a newline, a line comment up to the end of its line, a block comment, a
\* name, the statement tokens, a shebang line, and a byte no token starts with
FileAtoms == {"nl", "//c", "/**/", "a", ";", "{", "}", "#!x", "\\"}

\* pieces that run to the end of their line: /.*/ and /.+/ stop at a newline
LineAtoms == {"//c", "#!x"}

AtomLen(atom) ==
  CASE atom \in {"//c", "#!x"} -> 3
    [] atom = "/**/" -> 4
    [] OTHER -> 1

RECURSIVE Size(_)
Size(r) == IF r = <<>> THEN 0 ELSE AtomLen(Head(r)) + Size(Tail(r))

FileNode(kind, from, to, kids) == <<kind, from, to, kids>>
From(n) == n[2]
To(n) == n[3]
Children(n) == n[4]
Leaf(kind) == FileNode(kind, la[2], la[3], <<>>)

\* extras: /\s/ is an unnamed pattern and yields no node; the two comment
\* rules yield nodes
ExtraKind_CommentsHidden(atom) ==
  CASE atom = "nl" -> "none"
    [] atom = "//c" -> "none"
    [] atom = "/**/" -> "none"
    [] OTHER -> "no extra"

ExtraKind(atom) ==
  CASE atom = "nl" -> "none"
    [] atom = "//c" -> "line_comment"
    [] atom = "/**/" -> "block_comment"
    [] OTHER -> "no extra"

IsExtra(n) == Kind(n) \in {"line_comment", "block_comment"}

\* nothing but extras has been read: the optional shebang is still admitted
AtStart ==
  /\ Len(stack) = 1 /\ cur = <<>>
  /\ \A k \in 1..Len(Children(Top)) : IsExtra(Children(Top)[k])

InStatements == TopKind \in {"source_file", "block"}
InError == TopKind = "ERROR"

LexFile(atom) ==
  CASE ExtraKind(atom) # "no extra" -> ExtraKind(atom)
    [] atom = "a" -> "name"
    [] atom = "#!x" -> IF AtStart THEN "shebang" ELSE "#"
    [] atom = "\\" -> "_error_sentinel"
    [] OTHER -> atom

AfterLineAtom == read # <<>> /\ read[Len(read)] \in LineAtoms

ScanFile ==
  /\ pc = "run" /\ la = NoTok /\ nops < MaxInput
  /\ \E atom \in FileAtoms :
       /\ AfterLineAtom => atom = "nl"
       /\ read' = Append(read, atom)
       /\ la' = IF LexFile(atom) = "none" THEN NoTok
                ELSE <<LexFile(atom), Size(read), Size(read) + AtomLen(atom)>>
  /\ nops' = nops + 1
  /\ UNCHANGED <<stack, cur, pc>>

ScanEnd ==
  /\ pc = "run" /\ la = NoTok
  /\ la' = <<"end", Size(read), Size(read)>>
  /\ UNCHANGED <<read, nops, stack, cur, pc>>

\* the node in progress gets one more child, ending where it ends
Adopt(s, n) ==
  [s EXCEPT ![Len(s)] = FileNode(Kind(s[Len(s)]), From(s[Len(s)]), To(n),
                                 Append(Children(s[Len(s)]), n))]

\* a comment becomes a child of the innermost node around it
CanShiftExtra == IsExtra(la)
ShiftExtra ==
  /\ Step /\ CanShiftExtra
  /\ IF cur # <<>>
     THEN cur' = Append(cur, Leaf(Sym)) /\ UNCHANGED stack
     ELSE stack' = Adopt(stack, Leaf(Sym)) /\ UNCHANGED cur
  /\ Consume

\* source_file: optional($.shebang)
CanShiftShebang == Sym = "shebang"
ShiftShebang ==
  /\ Step /\ CanShiftShebang
  /\ stack' = Adopt(stack, Leaf("shebang"))
  /\ UNCHANGED cur /\ Consume

CanShiftName == InStatements /\ cur = <<>> /\ Sym = "name"
ShiftName ==
  /\ Step /\ CanShiftName
  /\ cur' = <<Leaf("name")>>
  /\ UNCHANGED stack /\ Consume

\* expression_statement: _expression `;`, or empty_statement
CanShiftSemicolon == InStatements /\ Sym = ";"
ShiftSemicolon ==
  /\ Step /\ CanShiftSemicolon
  /\ stack' = Adopt(stack,
       IF cur = <<>> THEN Leaf("empty_statement")
       ELSE FileNode("expression_statement", From(cur[1]), la[3],
                     Append(cur, Leaf(";"))))
  /\ cur' = <<>> /\ Consume

CanOpenBlock == InStatements /\ cur = <<>> /\ Sym = "{"
OpenBlock ==
  /\ Step /\ CanOpenBlock
  /\ stack' = Append(stack, FileNode("block", la[2], la[3], <<Leaf("{")>>))
  /\ UNCHANGED cur /\ Consume

\* block: `{` statements, optional expression, `}`; as a statement it is an
\* expression_statement of its own
CanCloseBlock == TopKind = "block" /\ Sym = "}"
CloseBlock ==
  /\ Step /\ CanCloseBlock
  /\ LET block == FileNode("block", From(Top), la[3],
                           Children(Top) \o cur \o <<Leaf("}")>>)
     IN  stack' = Adopt(Pop, FileNode("expression_statement", From(block),
                                      To(block), <<block>>))
  /\ cur' = <<>> /\ Consume

\* the root covers the input from its first byte to its end
RootStart == 0

CanAcceptFile == Len(stack) = 1 /\ InStatements /\ cur = <<>> /\ Sym = "end"
AcceptFile ==
  /\ Step /\ CanAcceptFile
  /\ cur' = <<FileNode("source_file", RootStart, la[3], Children(Top))>>
  /\ stack' = <<>> /\ la' = NoTok /\ pc' = "done"
  /\ UNCHANGED <<read, nops>>
(* Error recovery.  No rule admits the lookahead: the tokens from there up  *)
(* to the nearest synchronizing token are wrapped in an ERROR node and      *)
(* parsing resumes at that token; what is still open at the end of the      *)
(* input is wrapped as it stands.                                           *)

\* recovery never looks past the end of the input
SyncTokens_WithoutEnd == {";", "}"}

SyncTokens == {";", "}", "end"}

Admitted ==
  IF CanShiftExtra THEN TRUE
  ELSE IF CanShiftShebang THEN TRUE
  ELSE IF CanShiftName THEN TRUE
  ELSE IF CanShiftSemicolon THEN TRUE
  ELSE IF CanOpenBlock THEN TRUE
  ELSE IF CanCloseBlock THEN TRUE
  ELSE CanAcceptFile

CanStartError == ~InError /\ ~Admitted /\ Sym # "end"
StartError ==
  /\ Step /\ CanStartError
  /\ stack' = Append(stack,
       FileNode("ERROR", IF cur = <<>> THEN la[2] ELSE From(cur[1]), la[3],
                Append(cur, Leaf(Sym))))
  /\ cur' = <<>> /\ Consume

CanSkipToken == InError /\ ~CanShiftExtra /\ Sym \notin SyncTokens
SkipToken ==
  /\ Step /\ CanSkipToken
  /\ stack' = Adopt(stack, Leaf(Sym))
  /\ UNCHANGED cur /\ Consume

CanEndError == InError /\ Sym \in SyncTokens
EndError ==
  /\ Step /\ CanEndError
  /\ stack' = Adopt(Pop, Top)
  /\ UNCHANGED cur /\ Keep

\* the input ends after an expression with no `;`
CanAbandonExpression == ~InError /\ cur # <<>> /\ Sym = "end"
AbandonExpression ==
  /\ Step /\ CanAbandonExpression
  /\ stack' = Adopt(stack, FileNode("ERROR", From(cur[1]),
                                    To(cur[Len(cur)]), cur))
  /\ cur' = <<>> /\ Keep

\* nothing is done for a block the input ends in
CanAbandonBlock_Never == FALSE

\* the input ends inside a block
CanAbandonBlock == TopKind = "block" /\ cur = <<>> /\ Sym = "end"
AbandonBlock ==
  /\ Step /\ CanAbandonBlock
  /\ stack' = Adopt(Pop, FileNode("ERROR", From(Top), To(Top), Children(Top)))
  /\ UNCHANGED cur /\ Keep

InitFile ==
  /\ read = <<>> /\ la = NoTok /\ cur = <<>> /\ nops = 0 /\ pc = "run"
  /\ stack = <<FileNode("source_file", RootStart, 0, <<>>)>>

NextFile ==
  \/ ScanFile
  \/ ScanEnd
  \/ ShiftExtra
  \/ ShiftShebang
  \/ ShiftName
  \/ ShiftSemicolon
  \/ OpenBlock
  \/ CloseBlock
  \/ AcceptFile
  \/ StartError
  \/ SkipToken
  \/ EndError
  \/ AbandonExpression
  \/ AbandonBlock

SpecFile == InitFile /\ [][NextFile]_vars

\* a parse call runs to its end
SpecFileFair == SpecFile /\ WF_vars(NextFile)
----------------------------------------------------------------------------
(* Reading finished trees *)

RECURSIVE SubNodes(_)
SubNodes(n) ==
  IF n = Nil THEN {}
  ELSE {n} \cup UNION {SubNodes(Kids(n)[i]) : i \in 1..Len(Kids(n))}

Class(n) == RuleClass(Kind(n), Op(n))

IsOperator(n) == n # Nil /\ Class(n) # "none"

\* the operand a node begins with (infix and postfix rules), or Nil
LeftOperand(n) ==
  IF Kind(n) \in {"binary_expression", "assignment_expression",
                  "compound_assignment_expr", "range_expression",
                  "type_cast_expression", "try_expression",
                  "field_expression", "call_expression", "index_expression"}
  THEN Kids(n)[1] ELSE Nil

\* the operand a node ends with (prefix and infix rules), or Nil
RightOperand(n) ==
  IF Kind(n) \in {"unary_expression", "reference_expression",
                  "closure_expression"}
  THEN Kids(n)[1]
  ELSE IF Kind(n) \in {"binary_expression", "assignment_expression",
                       "compound_assignment_expr", "range_expression"}
  THEN Kids(n)[2] ELSE Nil

Name(x) == Node("name", x, <<>>)
Binary(op, l, r) == Node("binary_expression", op, <<l, r>>)

Accepted == pc = "accept"

\* the order of the operator classes, tightest first
ClassOrder ==
  <<"call", "field", "try", "unary", "cast", "multiplicative", "additive",
    "shift", "bitand", "bitxor", "bitor", "comparative", "and", "or",
    "range", "assign", "closure">>

Rank(c) == CHOOSE i \in 1..Len(ClassOrder) : ClassOrder[i] = c
Tighter(c, d) == Rank(c) < Rank(d)

(* C1 (as amended): when the operand between two operators of different    *)
(* classes could go to either of them (the left one ends with an operand,   *)
(* the right one begins with one), the operator of the class listed         *)
(* earlier takes it, so its node is an operand of the looser operator's     *)
(* node: call/index, field, try, unary, cast, multiplicative, additive,     *)
(* shift, bitand, bitxor, bitor, comparison, and, or, range, assignment,    *)
(* closure.                                                                 *)
C1_TighterTakesOperand ==
  Accepted =>
    \A n \in SubNodes(cur) :
      LET l == LeftOperand(n)
          r == RightOperand(n)
      IN  /\ (IsOperator(l) /\ RightOperand(l) # Nil /\ Class(l) # Class(n))
               => Tighter(Class(l), Class(n))
          /\ (IsOperator(r) /\ LeftOperand(r) # Nil /\ Class(r) # Class(n))
               => Tighter(Class(r), Class(n))

\* `a + b * c`: the multiplication is the right operand of the addition
C1_Witness ==
  /\ Accepted
  /\ read = <<"a", "+", "b", "*", "c", ";">>
  /\ cur = Binary("+", Name("a"), Binary("*", Name("b"), Name("c")))

(* C1 as stated: in any expression mixing two operators of different       *)
(* classes, the node of the tighter one is an operand of the looser one,   *)
(* that is, no operator node has a looser operator's node as an operand.   *)
C1_AnyMixLooserOutside ==
  Accepted =>
    \A n \in SubNodes(cur) :
      \A c \in {LeftOperand(n), RightOperand(n)} :
        (IsOperator(n) /\ IsOperator(c) /\ Class(c) # Class(n))
          => Tighter(Class(c), Class(n))
Assign(op, l, r) ==
  Node(IF op = "=" THEN "assignment_expression"
       ELSE "compound_assignment_expr", op, <<l, r>>)

AssignOps == {"="} \cup CompoundOps

\* the input is the chain x op1 y op2 z, closed by `;`
IsChain(ops1, ops2) ==
  /\ Len(read) = 6
  /\ read[1] = "a" /\ read[3] = "b" /\ read[5] = "c" /\ read[6] = ";"
  /\ read[2] \in ops1 /\ read[4] \in ops2

(* C2: assignment and compound assignment are right-associative: in a      *)
(* chain e1 = e2 = e3 (also with +=, -=, ...) the outer node's right field *)
(* is the assignment e2 = e3 and its left field is e1.                      *)
C2_AssignmentRightAssociative ==
  (Accepted /\ IsChain(AssignOps, AssignOps)) =>
    cur = Assign(read[2], Name("a"), Assign(read[4], Name("b"), Name("c")))

(* C3: every operator of binary_expression is left-associative: for two    *)
(* operators of one precedence class, a op1 b op2 c has the node a op1 b   *)
(* as the left field of the outer node and c as its right field; no        *)
(* binary_expression has one of its own class as its right operand.        *)
C3_BinaryLeftAssociative ==
  Accepted =>
    /\ \A n \in SubNodes(cur) :
         Kind(n) = "binary_expression" =>
           ~(/\ Kind(RightOperand(n)) = "binary_expression"
             /\ Class(RightOperand(n)) = Class(n))
    /\ (/\ IsChain(BinaryOps, BinaryOps)
        /\ BinaryClass(read[2]) = BinaryClass(read[4]))
         => cur = Binary(read[4], Binary(read[2], Name("a"), Name("b")),
                         Name("c"))

\* `a == b < c`, two operators of the comparison class
C3_Witness ==
  /\ Accepted
  /\ read = <<"a", "==", "b", "<", "c", ";">>
  /\ cur = Binary("<", Binary("==", Name("a"), Name("b")), Name("c"))

Try(e) == Node("try_expression", "?", <<e>>)

(* C4: `?` binds tighter than the prefix operators - * ! &, and applies    *)
(* to the whole field, call or index expression before it: -a? is the      *)
(* prefix operator applied to a?; a.b? and a()? and a[b]? are              *)
(* try_expressions over the field, call and index expression.              *)
C4_TryTighterThanPrefix ==
  Accepted =>
    /\ \A n \in SubNodes(cur) :
         Kind(n) = "try_expression" =>
           Kind(Kids(n)[1]) \notin
             {"unary_expression", "reference_expression"}
    /\ (Len(read) = 4 /\ read[1] \in UnaryOps \cup {"&"}
          /\ read[2] = "a" /\ read[3] = "?")
         => cur = Node(PrefixKind(read[1]), read[1], <<Try(Name("a"))>>)
    /\ read = <<"a", ".", "b", "?", ";">>
         => cur = Try(Node("field_expression", ".",
                           <<Name("a"), Node("field_name", "b", <<>>)>>))
    /\ read = <<"a", "(", ")", "?", ";">>
         => cur = Try(Node("call_expression", "(",
                           <<Name("a"), Node("arguments", "(", <<>>)>>))
    /\ read = <<"a", "[", "b", "]", "?", ";">>
         => cur = Try(Node("index_expression", "[",
                           <<Name("a"), Name("b")>>))

\* `-a?`
C4_Witness ==
  /\ Accepted
  /\ read = <<"-", "a", "?", ";">>
  /\ cur = Node("unary_expression", "-", <<Try(Name("a"))>>)
TypeName(x) == Node("type_name", x, <<>>)
TypeArguments(ts) == Node("type_arguments", "<", ts)

\* the lookahead is the atom `<`
AtLess == la # NoTok /\ Txt = "<"

(* C5 (as amended): a `<` that directly follows a finished expression is   *)
(* the comparison operator; directly after the type name of an `as` cast   *)
(* it opens that type's generic argument list; otherwise a generic         *)
(* argument list opens only after `::`.  `a < b` is a comparison and       *)
(* `a::<b>()` a call of a generic_function with type argument b.           *)
C5_LessAfterExpressionIsComparison ==
  /\ (AtLess /\ IsExpr(cur)) => Sym = "<"
  /\ (AtLess /\ IsType(cur) /\ Kind(cur) = "type_name"
        /\ TopKind = "type_cast_expression") => Sym = "<targs"
  /\ (AtLess /\ Sym = "<targs" /\ ~IsType(cur))
       => read[Len(read) - 1] = "::"
  /\ (Accepted /\ read = <<"a", "<", "b", ";">>)
       => cur = Binary("<", Name("a"), Name("b"))
  /\ (Accepted /\ read = <<"a", "::", "<", "b", ">", "(", ")", ";">>)
       => cur = Node("call_expression", "(",
                     <<Node("generic_function", "::",
                            <<Name("a"), TypeArguments(<<TypeName("b")>>)>>),
                       Node("arguments", "(", <<>>)>>)

\* `a < b`
C5_Witness ==
  /\ Accepted
  /\ read = <<"a", "<", "b", ";">>
  /\ cur = Binary("<", Name("a"), Name("b"))

(* C5 as stated: wherever the text before a `<` is a whole expression (a   *)
(* finished expression node, or a cast whose type has just ended), the `<` *)
(* is the comparison operator and never opens a generic argument list.     *)
C5_LessAfterAnyExpression ==
  (AtLess /\ (IsExpr(cur) \/ (IsType(cur)
                                /\ TopKind = "type_cast_expression")))
    => Sym = "<"

Mismatch == <<"mismatch">>

\* the delimiters a text leaves open, or Mismatch once a closing delimiter
\* does not match the most recently opened unclosed one
RECURSIVE Unclosed(_)
Unclosed(r) ==
  IF r = <<>> THEN <<>>
  ELSE LET u == Unclosed(SubSeq(r, 1, Len(r) - 1))
           t == r[Len(r)]
       IN  IF u = Mismatch THEN Mismatch
           ELSE IF t \in Openers THEN Append(u, t)
           ELSE IF t \in ClosingDelims
           THEN IF u # <<>> /\ Closer(u[Len(u)]) = t
                THEN SubSeq(u, 1, Len(u) - 1) ELSE Mismatch
           ELSE u

(* C9: in the macro grammars a closing delimiter is consumed without error *)
(* only if it matches the most recently opened unclosed delimiter, and a   *)
(* macro rule or invocation is accepted only with every delimiter closed.  *)
C9_DelimitersBalanced ==
  /\ (pc # "error" /\ la = NoTok) => Unclosed(read) # Mismatch
  /\ Accepted => Unclosed(read) = <<>>

\* every node below the productions in progress, and below cur
FinishedNodes ==
  SubNodes(cur) \cup
  UNION {UNION {SubNodes(Kids(stack[i])[k]) : k \in 1..Len(Kids(stack[i]))} :
           i \in 1..Len(stack)}

C10_FragmentKinds ==
  {"block", "expr", "ident", "item", "lifetime", "literal", "meta", "pat",
   "path", "stmt", "tt", "ty", "vis"}

Metavariable(x) == Node("metavariable", x, <<>>)
Binding(x, f) ==
  Node("token_binding_pattern", ":",
       <<Metavariable(x), Node("fragment_specifier", f, <<>>)>>)

\* the kinds a pattern's contents are made of
C10_PatternContent ==
  {"token_tree_pattern", "token_repetition_pattern", "token_binding_pattern",
   "metavariable", "token"}

C10_Example == <<"(", "$", "(", "$x", ":", "expr", ")", ",", "*", ")">>
C10_ExampleNoSeparator == <<"(", "$", "(", "$x", ":", "expr", ")", "+", ")">>

IsPrefix(r, t) == Len(r) <= Len(t) /\ r = SubSeq(t, 1, Len(r))

(* C10: in a pattern, `$( P ) sep op` is one token_repetition_pattern: its *)
(* operator is `+`, `*` or `?`, its contents are pattern contents followed  *)
(* by the separator if there is one; `$name:fragment` is one                *)
(* token_binding_pattern of a metavariable and a fragment_specifier of the  *)
(* fixed set.  `$($x:expr),*` is read without error as one repetition       *)
(* holding one binding ($x, expr), separator `,`, operator `*`.             *)
C10_RepetitionPattern ==
  /\ \A n \in FinishedNodes :
       /\ Kind(n) = "token_binding_pattern"
            => \E f \in C10_FragmentKinds : n = Binding("$x", f)
       /\ Kind(n) = "token_repetition_pattern"
            => /\ Op(n) \in {"+", "*", "?"}
               /\ \A k \in 1..Len(Kids(n)) :
                    \/ Kind(Kids(n)[k]) \in C10_PatternContent
                    \/ k = Len(Kids(n)) /\ Kind(Kids(n)[k]) = "separator"
  /\ (pc = "error" /\ TopKind \in PatternKinds \cup {"token_binding_pattern"})
       => /\ ~IsPrefix(read, C10_Example)
          /\ ~IsPrefix(read, C10_ExampleNoSeparator)
  /\ (read = C10_Example /\ la = NoTok)
       => stack = <<Node("macro_rule", "",
             <<Node("token_tree_pattern", "(",
                 <<Node("token_repetition_pattern", "*",
                        <<Binding("$x", "expr"),
                          Node("separator", <<",">>, <<>>)>>)>>)>>)>>
  /\ (read = C10_ExampleNoSeparator /\ la = NoTok)
       => stack = <<Node("macro_rule", "",
             <<Node("token_tree_pattern", "(",
                 <<Node("token_repetition_pattern", "+",
                        <<Binding("$x", "expr")>>)>>)>>)>>

\* `($($x:expr),*)` has been read as the left side of a macro_rule
C10_Witness ==
  /\ read = C10_Example /\ la = NoTok /\ pc = "run"
  /\ \E n \in FinishedNodes :
       /\ Kind(n) = "token_repetition_pattern" /\ Op(n) = "*"
       /\ Kids(n) = <<Binding("$x", "expr"), Node("separator", <<",">>, <<>>)>>

\* the finished root
Done == pc = "done"
Root == cur[1]

RECURSIVE HasError(_)
HasError(n) ==
  \/ Kind(n) = "ERROR"
  \/ \E k \in 1..Len(Children(n)) : HasError(Children(n)[k])

\* the bytes of a node
Span(n) == From(n)..(To(n) - 1)

\* the offsets of the whitespace bytes of a text
WhitespaceBytes(r) ==
  {Size(SubSeq(r, 1, i - 1)) : i \in {j \in 1..Len(r) : r[j] = "nl"}}

InOrder(kids) ==
  /\ \A k \in 1..Len(kids) : From(kids[k]) < To(kids[k])
  /\ \A k \in 1..(Len(kids) - 1) : To(kids[k]) <= From(kids[k + 1])

(* C7 (as amended): for a valid input the children of the root, comments   *)
(* included, have byte ranges in increasing order without overlap inside    *)
(* the input, and every byte of the input outside them is whitespace.       *)
C7_ChildrenCoverAllButWhitespace ==
  (Done /\ ~HasError(Root)) =>
    LET kids == Children(Root)
    IN  /\ InOrder(kids)
        /\ \A k \in 1..Len(kids) : Span(kids[k]) \subseteq 0..(Size(read) - 1)
        /\ (0..(Size(read) - 1)) \ UNION {Span(kids[k]) : k \in 1..Len(kids)}
             \subseteq WhitespaceBytes(read)

\* a valid input whose root has a comment among its children and a
\* whitespace byte outside them
C7_Witness ==
  /\ Done /\ ~HasError(Root)
  /\ \E k \in 1..Len(Children(Root)) : IsExtra(Children(Root)[k])
  /\ \E k \in 1..Len(Children(Root)) :
       Kind(Children(Root)[k]) = "expression_statement"
  /\ \E b \in WhitespaceBytes(read) :
       \A k \in 1..Len(Children(Root)) : b \notin Span(Children(Root)[k])

(* C7 as stated: for a valid input the byte ranges of the root's children, *)
(* in order, are contiguous and concatenate to exactly the input.          *)
C7_ChildrenConcatenateToInput ==
  (Done /\ ~HasError(Root)) =>
    LET kids == Children(Root)
    IN  IF kids = <<>> THEN Size(read) = 0
        ELSE /\ From(kids[1]) = 0
             /\ \A k \in 1..(Len(kids) - 1) : To(kids[k]) = From(kids[k + 1])
             /\ To(kids[Len(kids)]) = Size(read)

\* the byte ranges of the tokens of a text, whitespace left out
RECURSIVE InputTokens(_, _)
InputTokens(r, at) ==
  IF r = <<>> THEN <<>>
  ELSE (IF Head(r) = "nl" THEN <<>> ELSE <<<<at, at + AtomLen(Head(r))>>>>)
       \o InputTokens(Tail(r), at + AtomLen(Head(r)))

\* the byte ranges of the leaves of a tree, in order
RECURSIVE TreeLeaves(_)
RECURSIVE LeavesOf(_)
LeavesOf(kids) ==
  IF kids = <<>> THEN <<>> ELSE TreeLeaves(Head(kids)) \o LeavesOf(Tail(kids))
TreeLeaves(n) ==
  IF Children(n) = <<>> THEN <<<<From(n), To(n)>>>> ELSE LeavesOf(Children(n))

\* every node spans its children
RECURSIVE Enclosing(_)
Enclosing(n) ==
  \A k \in 1..Len(Children(n)) :
    /\ From(n) <= From(Children(n)[k]) /\ To(Children(n)[k]) <= To(n)
    /\ Enclosing(Children(n)[k])

\* the tree returned is whole: a source_file over the entire input whose
\* leaves are the tokens of the input, in order
C8_TreeFullyFormed ==
  Done =>
    /\ Kind(Root) = "source_file"
    /\ From(Root) = 0 /\ To(Root) = Size(read)
    /\ LeavesOf(Children(Root)) = InputTokens(read, 0)
    /\ Enclosing(Root)

(* C8: for every input, valid or not, the parse ends and returns a fully   *)
(* formed tree whose root covers the entire input, the unparsable runs      *)
(* wrapped in ERROR nodes.                                                  *)
C8_ParseNeverAborts == []C8_TreeFullyFormed /\ <>Done

\* an invalid input: an ERROR node among the root's children and a
\* statement parsed after it
C8_Witness ==
  /\ Done
  /\ \E k \in 1..Len(Children(Root)) :
       /\ Kind(Children(Root)[k]) = "ERROR"
       /\ \E j \in (k + 1)..Len(Children(Root)) :
            Kind(Children(Root)[j]) = "expression_statement"

\* the parse is that of a macro invocation
OfInvocation ==
  IF stack = <<>> THEN cur # Nil /\ Kind(cur) = "macro_invocation"
  ELSE Kind(stack[1]) = "macro_invocation"

MaxRaw == 11

MaxHashes == 2

Quote == "\""

RawChars == {"#", Quote, "a", "h"}

\* a candidate closing quote is the terminator once the opening's hashes follow
RawEnds_AtFirstQuote(matched) == TRUE

RawEnds(matched) == matched = nops

RawTokens(last) ==
  <<"_raw_string_literal_start", "raw_string_literal_content", last>>

\* `r`
ScanRawPrefix ==
  /\ pc = "prefix"
  /\ read' = <<"r">>
  /\ pc' = "hashes"
  /\ UNCHANGED <<la, stack, cur, nops>>

\* a `#` of the opening
ScanRawOpenHash ==
  /\ pc = "hashes" /\ nops < MaxHashes /\ Len(read) < MaxRaw
  /\ read' = Append(read, "#")
  /\ nops' = nops + 1
  /\ UNCHANGED <<la, stack, cur, pc>>

\* the opening quote ends _raw_string_literal_start
ScanRawOpenQuote ==
  /\ pc = "hashes" /\ Len(read) < MaxRaw
  /\ read' = Append(read, Quote)
  /\ pc' = "content"
  /\ UNCHANGED <<la, stack, cur, nops>>

\* neither `#` nor `"` after `r`: not a raw string
ScanRawNoStart ==
  /\ pc = "hashes" /\ Len(read) < MaxRaw
  /\ \E c \in RawChars \ {"#", Quote} : read' = Append(read, c)
  /\ pc' = "nomatch"
  /\ UNCHANGED <<la, stack, cur, nops>>

\* a content character other than `"`
ScanRawContent ==
  /\ pc = "content" /\ Len(read) < MaxRaw
  /\ \E c \in RawChars \ {Quote} :
       /\ read' = Append(read, c)
       /\ stack' = Append(stack, c)
  /\ UNCHANGED <<la, cur, nops, pc>>

\* a `"` in the content: a candidate terminator
ScanRawQuote ==
  /\ pc = "content" /\ Len(read) < MaxRaw
  /\ read' = Append(read, Quote)
  /\ la' = 0
  /\ IF RawEnds(0)
       THEN pc' = "done" /\ cur' = RawTokens("_raw_string_literal_end")
       ELSE pc' = "closing" /\ cur' = cur
  /\ UNCHANGED <<stack, nops>>

\* a `#` after the candidate closing quote
ScanRawCloseHash ==
  /\ pc = "closing" /\ Len(read) < MaxRaw
  /\ read' = Append(read, "#")
  /\ la' = la + 1
  /\ IF RawEnds(la + 1)
       THEN pc' = "done" /\ cur' = RawTokens("_raw_string_literal_end")
       ELSE pc' = "closing" /\ cur' = cur
  /\ UNCHANGED <<stack, nops>>

\* the candidate and the hashes matched after it, as content
Candidate == <<Quote>> \o [i \in 1..la |-> "#"]

\* too few `#` after the candidate: it was content
ScanRawCloseFail ==
  /\ pc = "closing" /\ Len(read) < MaxRaw
  /\ \E c \in RawChars \ {"#"} :
       /\ read' = Append(read, c)
       /\ IF c = Quote
            THEN stack' = stack \o Candidate /\ pc' = "closing"
            ELSE stack' = (stack \o Candidate) \o <<c>> /\ pc' = "content"
  /\ la' = 0
  /\ UNCHANGED <<cur, nops>>

\* end of input before the terminator
ScanRawEof ==
  /\ pc \in {"content", "closing"}
  /\ pc' = "error"
  /\ cur' = <<"_raw_string_literal_start", "_error_sentinel">>
  /\ UNCHANGED <<read, la, stack, nops>>

InitRaw ==
  /\ read = <<>>
  /\ la = 0
  /\ stack = <<>>
  /\ cur = <<>>
  /\ nops = 0
  /\ pc = "prefix"

NextRaw ==
  \/ ScanRawPrefix
  \/ ScanRawOpenHash
  \/ ScanRawOpenQuote
  \/ ScanRawNoStart
  \/ ScanRawContent
  \/ ScanRawQuote
  \/ ScanRawCloseHash
  \/ ScanRawCloseFail
  \/ ScanRawEof

SpecRaw == InitRaw /\ [][NextRaw]_vars

\* position of the opening quote of `r` + nops `#` + `"`
RawOpen == nops + 2

\* positions in the text read where a `"` is followed by nops `#`
Terminators ==
  { i \in (RawOpen + 1)..Len(read) :
      /\ read[i] = Quote
      /\ i + nops <= Len(read)
      /\ \A j \in 1..nops : read[i + j] = "#" }

RawExample == <<"r", "#", "#", Quote, "a", Quote, "h", "a", Quote, "#", "#">>

(* C12: a raw string `r` + N `#` + `"` ends only at the first `"` that is  *)
(* followed by N `#`: the literal is complete exactly when the text read   *)
(* ends with that terminator, its content is everything between the        *)
(* opening quote and it (r##"a"ha"## has content a"ha), and an input that  *)
(* ends before the terminator yields the error sentinel, not a closed      *)
(* string.                                                                 *)
C12_RawStringTerminator ==
  /\ pc = "done"
       => /\ Terminators = {Len(read) - nops}
          /\ stack = SubSeq(read, RawOpen + 1, Len(read) - nops - 1)
          /\ cur = RawTokens("_raw_string_literal_end")
  /\ pc \in {"content", "closing", "error"} => Terminators = {}
  /\ pc = "error" => cur[Len(cur)] = "_error_sentinel"
  /\ (pc = "done" /\ read = RawExample) => stack = <<"a", Quote, "h", "a">>

\* r##"a"ha"## read to its end
C12_Witness == pc = "done" /\ read = RawExample

\* r#"a"# cut short after the quote: unterminated
C12_WitnessUnterminated ==
  pc = "error" /\ read = <<"r", "#", Quote, "a", Quote>>

(***************************************************************************)
(* Lifetimes, labels and character literals.  Both begin with `'`: the     *)
(* external tokens lifetime_quote and char_quote are told apart by the     *)
(* scanner from the characters that follow.  `read` is the text from the   *)
(* quote on, `nops` the number of characters consumed, `la` the external   *)
(* token produced for the quote, `cur` the finished node.                  *)
(***************************************************************************)
MaxAfterQuote == 3

Apostrophe == "'"

Letters == {"a", "b", "s", "t", "i", "c"}

QuoteChars == {Apostrophe, "a", "b", ">", " ", "\\"}

\* identifier: /[_\p{XID_Start}][_\p{XID_Continue}]*/ over the letters
RECURSIVE IdentEnd(_, _)
IdentEnd(s, i) ==
  IF i <= Len(s) /\ s[i] \in Letters THEN IdentEnd(s, i + 1) ELSE i

\* the keyword `static` as text
Static == <<"s", "t", "a", "t", "i", "c">>

\* no word is a lifetime whatever follows it
ReservedLifetime_None == <<>>

\* the word that is only ever a lifetime
ReservedLifetime == Static

\* the scanner's choice for the `'` at s[1]
IsLifetimeQuote(s) ==
  LET e == IdentEnd(s, 2)
  IN  IF e = 2 THEN FALSE
      ELSE IF SubSeq(s, 2, e - 1) = ReservedLifetime THEN TRUE
      ELSE IF e <= Len(s) THEN s[e] # Apostrophe
      ELSE TRUE

\* lifetime_quote
ScanLifetimeQuote ==
  /\ pc = "quote" /\ IsLifetimeQuote(read)
  /\ la' = "lifetime_quote"
  /\ nops' = 1
  /\ pc' = "name"
  /\ UNCHANGED <<read, stack, cur>>

\* char_quote
ScanCharQuote ==
  /\ pc = "quote" /\ ~IsLifetimeQuote(read)
  /\ la' = "char_quote"
  /\ nops' = 1
  /\ pc' = "char"
  /\ UNCHANGED <<read, stack, cur>>

\* lifetime / label: the name after the quote
ShiftLifetimeName ==
  /\ pc = "name"
  /\ LET e == IdentEnd(read, 2)
     IN  /\ nops' = e - 1
         /\ cur' = Node("lifetime", "", <<Node("name", SubSeq(read, 2, e - 1), <<>>)>>)
  /\ pc' = "done"
  /\ UNCHANGED <<read, la, stack>>

\* literal_char: /[^\\']/
ShiftLiteralChar ==
  /\ pc = "char" /\ nops < Len(read)
  /\ read[nops + 1] \notin {Apostrophe, "\\"}
  /\ stack' = <<Node("literal_char", <<read[nops + 1]>>, <<>>)>>
  /\ nops' = nops + 1
  /\ pc' = "close"
  /\ UNCHANGED <<read, la, cur>>

\* escape_sequence: `\` and one character
ShiftEscapeSequence ==
  /\ pc = "char" /\ nops + 1 < Len(read)
  /\ read[nops + 1] = "\\"
  /\ stack' = <<Node("escape_sequence", SubSeq(read, nops + 1, nops + 2), <<>>)>>
  /\ nops' = nops + 2
  /\ pc' = "close"
  /\ UNCHANGED <<read, la, cur>>

\* optional(...): the closing quote directly after the opening one
SkipCharContent ==
  /\ pc = "char" /\ nops < Len(read)
  /\ read[nops + 1] = Apostrophe
  /\ pc' = "close"
  /\ UNCHANGED <<read, la, stack, cur, nops>>

\* the closing '\''
CloseCharLiteral ==
  /\ pc = "close" /\ nops < Len(read)
  /\ read[nops + 1] = Apostrophe
  /\ cur' = Node("char_literal", "", stack)
  /\ stack' = <<>>
  /\ nops' = nops + 1
  /\ pc' = "done"
  /\ UNCHANGED <<read, la>>

\* no closing quote where char_literal requires it
CharLiteralError ==
  /\ IF pc = "close"
       THEN (IF nops < Len(read) THEN read[nops + 1] # Apostrophe ELSE TRUE)
     ELSE IF pc = "char"
       THEN (IF nops = Len(read) THEN TRUE
             ELSE read[nops + 1] = "\\" /\ nops + 1 = Len(read))
     ELSE FALSE
  /\ pc' = "error"
  /\ UNCHANGED <<read, la, stack, cur, nops>>

RECURSIVE SeqsUpTo(_, _)
SeqsUpTo(S, n) ==
  IF n = 0 THEN {<<>>}
  ELSE LET shorter == SeqsUpTo(S, n - 1)
       IN  shorter \cup { Append(s, c) : s \in shorter, c \in S }

InitQuote ==
  /\ read \in { <<Apostrophe>> \o s : s \in SeqsUpTo(QuoteChars, MaxAfterQuote) }
            \cup { (<<Apostrophe>> \o Static) \o s : s \in SeqsUpTo(QuoteChars, 1) }
  /\ la = ""
  /\ stack = <<>>
  /\ cur = Nil
  /\ nops = 0
  /\ pc = "quote"

NextQuote ==
  \/ ScanLifetimeQuote
  \/ ScanCharQuote
  \/ ShiftLifetimeName
  \/ ShiftLiteralChar
  \/ ShiftEscapeSequence
  \/ SkipCharContent
  \/ CloseCharLiteral
  \/ CharLiteralError

SpecQuote == InitQuote /\ [][NextQuote]_vars

\* the text starts with `'` and an identifier that ends before position e
IdentifierUpTo(e) ==
  /\ e > 2 /\ e <= Len(read) + 1
  /\ \A i \in 2..(e - 1) : read[i] \in Letters
  /\ e <= Len(read) => read[e] \notin Letters

(* C13 (as amended): a `'` followed by an identifier is scanned as a       *)
(* lifetime quote when the character after the identifier is not a closing *)
(* `'` or the identifier is `static`, and as the opening quote of a        *)
(* character literal in every other case (a `'` not followed by an         *)
(* identifier included); `'a>` and `'a ` yield a lifetime named a, `'a'` a *)
(* char_literal with content a.                                            *)
C13_LifetimeOrCharQuote ==
  pc # "quote" =>
    /\ la \in {"lifetime_quote", "char_quote"}
    /\ la = "lifetime_quote"
         <=> \E e \in 3..(Len(read) + 1) :
               /\ IdentifierUpTo(e)
               /\ \/ e = Len(read) + 1
                  \/ read[e] # Apostrophe
                  \/ SubSeq(read, 2, e - 1) = Static
    /\ (pc = "done" /\ Len(read) >= 3 /\ SubSeq(read, 1, 3) \in {<<Apostrophe, "a", ">">>, <<Apostrophe, "a", " ">>})
         => cur = Node("lifetime", "", <<Node("name", <<"a">>, <<>>)>>)
    /\ (pc \in {"done", "error"} /\ Len(read) >= 3 /\ SubSeq(read, 1, 3) = <<Apostrophe, "a", Apostrophe>>)
         => cur = Node("char_literal", "", <<Node("literal_char", <<"a">>, <<>>)>>)
    /\ pc = "done" => Kind(cur) = (IF la = "lifetime_quote" THEN "lifetime" ELSE "char_literal")

\* `'static'` scanned: a lifetime although a `'` follows the identifier
C13_Witness ==
  /\ pc = "done" /\ read = (<<Apostrophe>> \o Static) \o <<Apostrophe>>
  /\ Kind(cur) = "lifetime"

\* `'a'` finished as a character literal
C13_WitnessChar ==
  pc = "done" /\ read = <<Apostrophe, "a", Apostrophe>> /\ Kind(cur) = "char_literal"

(* C13 as stated: the quote is a lifetime quote exactly when an identifier *)
(* follows whose next character is not a closing `'`, and the opening      *)
(* quote of a character literal otherwise.                                 *)
C13_QuoteByNextCharacterOnly ==
  pc # "quote" =>
    /\ la \in {"lifetime_quote", "char_quote"}
    /\ la = "lifetime_quote"
         <=> \E e \in 3..(Len(read) + 1) :
               /\ IdentifierUpTo(e)
               /\ (e = Len(read) + 1 \/ read[e] # Apostrophe)

(***************************************************************************)
(* Block comments.  block_comment is `/*`, the external token              *)
(* _block_comment_content and `*/`; the scanner reads the content one      *)
(* character at a time and keeps the nesting depth.  `read` is the text    *)
(* consumed, `nops` the depth, `pc` what the last character may begin      *)
(* ("slash": a `/` that may open, "star": a `*` that may close), `cur`     *)
(* the finished node with its byte range.                                  *)
(***************************************************************************)
MaxComment == 11

CommentChars == {"/", "*", " "}

\* an inner `/*` leaves the depth as it is
Deeper_Flat(d) == d

\* an inner `/*`
Deeper(d) == d + 1

\* '/*'
ScanBlockOpen ==
  /\ pc = "open"
  /\ read' = <<"/", "*">>
  /\ nops' = 1
  /\ pc' = "content"
  /\ UNCHANGED <<la, stack, cur>>

\* a character that neither opens nor closes
ScanBlockChar ==
  /\ pc \in {"content", "slash", "star"} /\ Len(read) < MaxComment
  /\ \E c \in CommentChars :
       /\ IF pc = "slash" THEN c # "*"
          ELSE IF pc = "star" THEN c # "/"
          ELSE TRUE
       /\ read' = Append(read, c)
       /\ pc' = IF c = "/" THEN "slash" ELSE IF c = "*" THEN "star" ELSE "content"
  /\ UNCHANGED <<la, stack, cur, nops>>

\* `*` after `/`: one level deeper
ScanBlockNested ==
  /\ pc = "slash" /\ Len(read) < MaxComment
  /\ read' = Append(read, "*")
  /\ nops' = Deeper(nops)
  /\ pc' = "content"
  /\ UNCHANGED <<la, stack, cur>>

\* `/` after `*` inside a nested comment: one level up
ScanBlockUnnest ==
  /\ pc = "star" /\ nops > 1 /\ Len(read) < MaxComment
  /\ read' = Append(read, "/")
  /\ nops' = nops - 1
  /\ pc' = "content"
  /\ UNCHANGED <<la, stack, cur>>

\* '*/' at depth one ends the block_comment
ScanBlockClose ==
  /\ pc = "star" /\ nops = 1 /\ Len(read) < MaxComment
  /\ read' = Append(read, "/")
  /\ nops' = 0
  /\ cur' = FileNode("block_comment", 0, Len(read) + 1, <<>>)
  /\ pc' = "done"
  /\ UNCHANGED <<la, stack>>

\* end of input inside the comment
ScanBlockEof ==
  /\ pc \in {"content", "slash", "star"}
  /\ cur' = FileNode("_error_sentinel", 0, Len(read), <<>>)
  /\ pc' = "error"
  /\ UNCHANGED <<read, la, stack, nops>>

InitBlock ==
  /\ read = <<>>
  /\ la = ""
  /\ stack = <<>>
  /\ cur = Nil
  /\ nops = 0
  /\ pc = "open"

NextBlock ==
  \/ ScanBlockOpen
  \/ ScanBlockChar
  \/ ScanBlockNested
  \/ ScanBlockUnnest
  \/ ScanBlockClose
  \/ ScanBlockEof

SpecBlock == InitBlock /\ [][NextBlock]_vars

\* s[i], s[i+1] are the two characters a, b
PairAt(s, i, a, b) == i < Len(s) /\ s[i] = a /\ s[i + 1] = b

\* <<depth, end>> of the comment text s read from position i at depth d:
\* end is the position of the `/` that brings the depth to zero, 0 if none
RECURSIVE Nesting(_, _, _)
Nesting(s, i, d) ==
  IF d = 0 THEN <<0, i - 1>>
  ELSE IF i > Len(s) THEN <<d, 0>>
  ELSE IF PairAt(s, i, "/", "*") THEN Nesting(s, i + 2, d + 1)
  ELSE IF PairAt(s, i, "*", "/") THEN Nesting(s, i + 2, d - 1)
  ELSE Nesting(s, i + 1, d)

NestedExample == <<"/", "*", " ", "/", "*", " ", "*", "/", " ", "*", "/">>

(* C14: block comments nest with a depth counter that starts at 1 after    *)
(* the opening `/*`, goes up at every inner `/*` and down at every `*/`;   *)
(* the comment ends exactly at the `*/` that brings the depth to zero      *)
(* (`/* /* */ */` is one block_comment over the whole text), and a comment *)
(* whose depth has not returned to zero at end of input is an error, not a *)
(* closed comment.                                                         *)
C14_BlockCommentsNest ==
  pc # "open" =>
    /\ nops = Nesting(read, 3, 1)[1]
    /\ pc = "done" <=> Nesting(read, 3, 1)[2] = Len(read)
    /\ pc = "done" => cur = FileNode("block_comment", 0, Len(read), <<>>)
    /\ pc = "error" => nops > 0 /\ Kind(cur) # "block_comment"
    /\ read = NestedExample => pc = "done"

\* `/* /* */ */` read to its end
C14_Witness ==
  pc = "done" /\ read = NestedExample

\* `/* /* */` and the end of input: still one level deep
C14_WitnessUnclosed ==
  pc = "error" /\ read = <<"/", "*", " ", "/", "*", " ", "*", "/">> /\ nops = 1

(***************************************************************************)
(* Line comments.  After '//' three immediate tokens compete: the pattern  *)
(* /\/\// and the markers '/' and '!' at lexical precedence 2, and the     *)
(* pattern /.*/ at precedence 1.  `read` is one line starting with `//`,   *)
(* `nops` the number of characters consumed, `la` the token chosen after   *)
(* the slashes, `stack` the children built so far, `cur` the finished      *)
(* line_comment.                                                           *)
(***************************************************************************)
MaxLine == 4

LineChars == {"/", "!", "x"}

\* the text of s from position i on
Rest(s, i) == SubSeq(s, i, Len(s))

StartsWith(s, p) == Len(s) >= Len(p) /\ SubSeq(s, 1, Len(p)) = p

\* token.immediate(prec(2, ...)) of the markers and of /\/\//
marker_prec == 2

\* /.*/ preferred to the markers
rest_prec_AboveMarkers == marker_prec + 1

\* token.immediate(prec(1, /.*/))
rest_prec == 1

\* the immediate tokens that match at the start of s: <<token, precedence, length>>
ImmediateMatches(s) ==
  (IF StartsWith(s, <<"/", "/">>) THEN {<<"//", marker_prec, 2>>} ELSE {})
    \cup (IF StartsWith(s, <<"/">>) THEN {<<"outer", marker_prec, 1>>} ELSE {})
    \cup (IF StartsWith(s, <<"!">>) THEN {<<"inner", marker_prec, 1>>} ELSE {})
    \cup {<<"rest", rest_prec, Len(s)>>}

\* lexical precedence first, then the longer match
LexLine(s) ==
  CHOOSE t \in ImmediateMatches(s) :
    \A u \in ImmediateMatches(s) :
      \/ t[2] > u[2]
      \/ t[2] = u[2] /\ t[3] >= u[3]

\* '//'
ShiftSlashes ==
  /\ pc = "line"
  /\ nops' = 2
  /\ la' = LexLine(Rest(read, 3))
  /\ pc' = "after"
  /\ UNCHANGED <<read, stack, cur>>

\* token.immediate(prec(2, /\/\//)) and then /.*/
ShiftMoreSlashes ==
  /\ pc = "after" /\ la[1] = "//"
  /\ nops' = Len(read)
  /\ cur' = Node("line_comment", "", <<>>)
  /\ pc' = "done"
  /\ UNCHANGED <<read, la, stack>>

\* _line_doc_comment_marker: field 'outer' or 'inner'
ShiftDocMarker ==
  /\ pc = "after" /\ la[1] \in {"outer", "inner"}
  /\ nops' = nops + 1
  /\ stack' = <<Node(la[1] \o "_doc_comment_marker", la[1], <<>>)>>
  /\ pc' = "doc"
  /\ UNCHANGED <<read, la, cur>>

\* field('doc', alias($._line_doc_content, $.doc_comment)): the rest of the line
ShiftDocContent ==
  /\ pc = "doc"
  /\ nops' = Len(read)
  /\ cur' = Node("line_comment", "", Append(stack, Node("doc_comment", "doc", <<>>)))
  /\ stack' = <<>>
  /\ pc' = "done"
  /\ UNCHANGED <<read, la>>

\* token.immediate(prec(1, /.*/))
ShiftRestOfLine ==
  /\ pc = "after" /\ la[1] = "rest"
  /\ nops' = Len(read)
  /\ cur' = Node("line_comment", "", <<>>)
  /\ pc' = "done"
  /\ UNCHANGED <<read, la, stack>>

InitLine ==
  /\ read \in { <<"/", "/">> \o s : s \in SeqsUpTo(LineChars, MaxLine) }
  /\ la = NoTok
  /\ stack = <<>>
  /\ cur = Nil
  /\ nops = 0
  /\ pc = "line"

NextLine ==
  \/ ShiftSlashes
  \/ ShiftMoreSlashes
  \/ ShiftDocMarker
  \/ ShiftDocContent
  \/ ShiftRestOfLine

SpecLine == InitLine /\ [][NextLine]_vars

\* the character at position i of the line, "" past its end
CharAt(i) == IF i <= Len(read) THEN read[i] ELSE ""

\* the fields of the finished line_comment
Fields == { Op(Kids(cur)[i]) : i \in 1..Len(Kids(cur)) }

(* C15: a line comment is classified by the characters right after `//`:   *)
(* one further `/` that no fourth `/` follows makes an outer doc comment,  *)
(* `!` an inner doc comment, four or more slashes a plain comment with no  *)
(* doc marker and no doc field, anything else a plain comment; every line  *)
(* comment is in exactly one class.                                        *)
C15_LineCommentClasses ==
  pc = "done" =>
    /\ Kind(cur) = "line_comment" /\ nops = Len(read)
    /\ Fields \in {{"outer", "doc"}, {"inner", "doc"}, {}}
    /\ Fields = {"outer", "doc"} <=> (CharAt(3) = "/" /\ CharAt(4) # "/")
    /\ Fields = {"inner", "doc"} <=> CharAt(3) = "!"
    /\ (CharAt(3) = "/" /\ CharAt(4) = "/") => Fields = {}
    /\ CharAt(3) \notin {"/", "!"} => Fields = {}

\* `///x` as outer doc comment, after the lexer preferred the marker to /.*/
C15_Witness ==
  /\ pc = "done" /\ read = <<"/", "/", "/", "x">>
  /\ Fields = {"outer", "doc"}

\* `////` as plain comment
C15_WitnessFourSlashes ==
  pc = "done" /\ read = <<"/", "/", "/", "/">> /\ Fields = {}

(***************************************************************************)
(* The start of a file: shebang and attributes.  `read` is the input (one  *)
(* line), `nops` the number of characters consumed, `stack` the kinds of   *)
(* the root's children so far, `la` the kind of the attribute being read,  *)
(* `pc` the position in source_file / attribute_item /                     *)
(* inner_attribute_item.                                                   *)
(***************************************************************************)
MaxSource == 6

SourceChars == {"#", "!", " ", "[", "a", "]"}

\* /\s/
IsBlank(c) == c = " "

\* [\s]* of the shebang pattern takes the characters 3..(p - 1) of s
BlanksUpTo(s, p) == \A i \in 3..(p - 1) : IsBlank(s[i])

\* shebang: /#![\s]*[^\[].+/ -- the lengths of the prefixes of the line s it matches
ShebangMatches(s) ==
  { n \in 1..Len(s) :
      /\ StartsWith(s, <<"#", "!">>)
      /\ \E p \in 3..Len(s) :
           /\ BlanksUpTo(s, p)
           /\ s[p] # "["
           /\ n >= p + 1 }

\* the longest match of shebang at the start of s, 0 if there is none
ShebangLength(s) ==
  IF ShebangMatches(s) = {} THEN 0
  ELSE CHOOSE n \in ShebangMatches(s) : \A k \in ShebangMatches(s) : k <= n

NextChar == IF nops < Len(read) THEN read[nops + 1] ELSE "end"

\* extras: /\s/ between any two tokens
SkipBlank ==
  /\ pc \in {"start", "items", "hash", "bang", "open", "attr"}
  /\ IsBlank(NextChar)
  /\ nops' = nops + 1
  /\ UNCHANGED <<read, la, stack, cur, pc>>

\* optional($.shebang): the longest match wins over '#'
ShiftShebangLine ==
  /\ pc = "start"
  /\ ShebangLength(Rest(read, nops + 1)) > 0
  /\ nops' = nops + ShebangLength(Rest(read, nops + 1))
  /\ stack' = Append(stack, "shebang")
  /\ pc' = "items"
  /\ UNCHANGED <<read, la, cur>>

\* '#' of attribute_item / inner_attribute_item
ShiftHash ==
  /\ NextChar = "#"
  /\ IF pc = "start" THEN ShebangLength(Rest(read, nops + 1)) = 0
     ELSE pc = "items"
  /\ nops' = nops + 1
  /\ pc' = "hash"
  /\ UNCHANGED <<read, la, stack, cur>>

\* '!' of inner_attribute_item
ShiftBang ==
  /\ pc = "hash" /\ NextChar = "!"
  /\ nops' = nops + 1
  /\ pc' = "bang"
  /\ UNCHANGED <<read, la, stack, cur>>

\* '['
ShiftAttributeOpen ==
  /\ pc \in {"hash", "bang"} /\ NextChar = "["
  /\ nops' = nops + 1
  /\ la' = IF pc = "bang" THEN "inner_attribute_item" ELSE "attribute_item"
  /\ pc' = "open"
  /\ UNCHANGED <<read, stack, cur>>

\* _attribute: a name
ShiftAttribute ==
  /\ pc = "open" /\ NextChar = "a"
  /\ nops' = IdentEnd(read, nops + 1) - 1
  /\ pc' = "attr"
  /\ UNCHANGED <<read, la, stack, cur>>

\* ']' ends the attribute, a _statement of source_file
ShiftAttributeClose ==
  /\ pc = "attr" /\ NextChar = "]"
  /\ nops' = nops + 1
  /\ stack' = Append(stack, la)
  /\ pc' = "items"
  /\ UNCHANGED <<read, la, cur>>

\* end of input after optional($.shebang), repeat($._statement)
AcceptSource ==
  /\ pc \in {"start", "items"} /\ NextChar = "end"
  /\ cur' = Node("source_file", "", stack)
  /\ pc' = "done"
  /\ UNCHANGED <<read, la, stack, nops>>

\* the tokens admitted at each position
Expected ==
  CASE pc = "start" -> {" ", "#", "end"}
    [] pc = "items" -> {" ", "#", "end"}
    [] pc = "hash" -> {" ", "!", "["}
    [] pc = "bang" -> {" ", "["}
    [] pc = "open" -> {" ", "a"}
    [] pc = "attr" -> {" ", "]"}
    [] OTHER -> {}

SourceError ==
  /\ pc \in {"start", "items", "hash", "bang", "open", "attr"}
  /\ NextChar \notin Expected
  /\ IF pc = "start" THEN ShebangLength(Rest(read, nops + 1)) = 0 ELSE TRUE
  /\ pc' = "error"
  /\ UNCHANGED <<read, la, stack, cur, nops>>

InitSource ==
  /\ read \in SeqsUpTo(SourceChars, MaxSource)
  /\ la = ""
  /\ stack = <<>>
  /\ cur = Nil
  /\ nops = 0
  /\ pc = "start"

NextSource ==
  \/ SkipBlank
  \/ ShiftShebangLine
  \/ ShiftHash
  \/ ShiftBang
  \/ ShiftAttributeOpen
  \/ ShiftAttribute
  \/ ShiftAttributeClose
  \/ AcceptSource
  \/ SourceError

SpecSource == InitSource /\ [][NextSource]_vars

\* the file begins `#!`, whitespace or nothing, `[`
BeginsInnerAttribute ==
  /\ StartsWith(read, <<"#", "!">>)
  /\ \E p \in 3..Len(read) : BlanksUpTo(read, p) /\ read[p] = "["

(* C16: the root is a source_file with an optional shebang, accepted only  *)
(* as the first element, followed by statements; a leading `#!` is a       *)
(* shebang only when it is not followed by `[`, so a file that begins with *)
(* an inner attribute `#![...]`, also with whitespace between `#!` and     *)
(* `[`, yields an inner_attribute_item and never a shebang.                *)
C16_InnerAttributeNeverShebang ==
  /\ \A k \in 2..Len(stack) : stack[k] # "shebang"
  /\ BeginsInnerAttribute => \A k \in 1..Len(stack) : stack[k] # "shebang"
  /\ (pc = "done" /\ BeginsInnerAttribute)
       => stack # <<>> /\ stack[1] = "inner_attribute_item"

\* `#![a]` parsed as an inner attribute
C16_InnerAttributeRead ==
  /\ pc = "done" /\ read = <<"#", "!", "[", "a", "]">>
  /\ stack = <<"inner_attribute_item">>

(***************************************************************************)
(* Parameter lists: parameters `( ... )` of a function and                 *)
(* closure_parameters `| ... |`.  An entry is a name, `_`, a scoped name,  *)
(* `()` or a tuple of these, alone or followed by `: type`.  While an      *)
(* entry is read `stack` holds its live readings (the parse alternatives): *)
(* a tuple in a function's list can still become a tuple_type or a         *)
(* tuple_pattern.  `cur` is the list node with the finished entries, `la`  *)
(* the lookahead token.                                                    *)
(***************************************************************************)
MaxParams == 7

ParamAtoms == {"(", ")", ",", ":", "x", "_", "a::b", "|"}

ItemAtoms == {"x", "_", "a::b"}

\* the declared conflicts without the one of types and patterns
conflicts_WithoutTypePattern ==
  { {"unit_type", "tuple_pattern"}, {"scoped_name", "scoped_type_name"},
    {"parameters", "_pattern"}, {"parameters", "tuple_struct_pattern"},
    {"type_parameters", "for_lifetimes"}, {"array_expression"},
    {"visibility_modifier"} }

conflicts ==
  { {"_type", "_pattern"}, {"unit_type", "tuple_pattern"},
    {"scoped_name", "scoped_type_name"}, {"parameters", "_pattern"},
    {"parameters", "tuple_struct_pattern"},
    {"type_parameters", "for_lifetimes"}, {"array_expression"},
    {"visibility_modifier"} }

Ahead == IF la = NoTok THEN "" ELSE la[1]

ListKind == IF cur = Nil THEN "" ELSE Kind(cur)

ListCloser == IF ListKind = "parameters" THEN ")" ELSE "|"

\* _type: _type_name, scoped_type_name; `_` is no type
TypeOf(tok) ==
  CASE Kind(tok) = "x" -> Node("type_name", "x", <<>>)
    [] Kind(tok) = "a::b" -> Node("scoped_type_name", "a::b", <<>>)
    [] OTHER -> Nil

\* _pattern: name, scoped_name, '_'
PatternOf(tok) ==
  CASE Kind(tok) = "x" -> Node("name", "x", <<>>)
    [] Kind(tok) = "a::b" -> Node("scoped_name", "a::b", <<>>)
    [] OTHER -> Node("_", "_", <<>>)

ReadAs(tok, reading) ==
  IF reading = "_type" THEN TypeOf(tok) ELSE PatternOf(tok)

\* every entry without a type is read as a pattern
EntryReading_AlwaysPattern == "_pattern"

\* an entry of parameters without `:` is '_' or a _type, one of
\* closure_parameters a _pattern
EntryReading == IF ListKind = "parameters" THEN "_type" ELSE "_pattern"

\* the readings a tuple element can take: in parameters the tuple may be a
\* tuple_type or the tuple_pattern of a parameter
ElementReadings ==
  IF ListKind = "parameters" THEN {"_type", "_pattern"} ELSE {"_pattern"}

NotNil(n) == n # Nil

LastKid(a) == Kids(a)[Len(Kids(a))]

Reads(a) == Op(a) \in ElementReadings /\ Kids(a)[1] # Nil

\* the alternatives that follow alternative a once its last element is reduced
Expand(a) ==
  IF Kind(a) = "("
    THEN SelectSeq(<<Node("tuple_type", "_type", <<TypeOf(LastKid(a))>>),
                     Node("tuple_pattern", "_pattern", <<PatternOf(LastKid(a))>>)>>,
                   Reads)
  ELSE IF ReadAs(LastKid(a), Op(a)) # Nil
    THEN <<Node(Kind(a), Op(a),
                Append(SubSeq(Kids(a), 1, Len(Kids(a)) - 1), ReadAs(LastKid(a), Op(a))))>>
  ELSE <<>>

ExpandAll ==
  IF Len(stack) = 1 THEN Expand(stack[1])
  ELSE Expand(stack[1]) \o Expand(stack[2])

\* alternative a as a finished entry under the reading r
AltAs(a, r) ==
  IF Kind(a) \in ItemAtoms
    THEN (IF r = "_pattern" THEN PatternOf(a)
          ELSE IF Kind(a) = "_" THEN Node("_", "_", <<>>)
          ELSE TypeOf(a))
  ELSE IF Kind(a) = "("
    THEN (IF r = "_type" THEN Node("unit_type", "", <<>>)
          ELSE Node("tuple_pattern", "", <<>>))
  ELSE IF Op(a) = r THEN Node(Kind(a), "", Kids(a))
  ELSE Nil

Survivors(r) ==
  SelectSeq([i \in 1..Len(stack) |-> AltAs(stack[i], r)], NotNil)

ParamRunning == pc \notin {"done", "error"}

\* inside a tuple the elements are names, `_` and scoped names
AtomsAt == IF pc \in {"tuple", "element", "element-end"} THEN ParamAtoms \ {"("} ELSE ParamAtoms

ScanParam ==
  /\ ParamRunning /\ la = NoTok
  /\ IF nops < MaxParams
       THEN \E atom \in AtomsAt \cup {"end"} :
              /\ la' = <<atom>>
              /\ read' = IF atom = "end" THEN read ELSE Append(read, atom)
       ELSE la' = <<"end">> /\ read' = read
  /\ nops' = nops + 1
  /\ UNCHANGED <<stack, cur, pc>>

Shift(next) == la' = NoTok /\ pc' = next /\ UNCHANGED <<read, nops>>

\* '(' of parameters, '|' of closure_parameters
CanOpenList == pc = "open" /\ Ahead \in {"(", "|"}
OpenList ==
  /\ CanOpenList
  /\ cur' = Node(IF Ahead = "(" THEN "parameters" ELSE "closure_parameters", "", <<>>)
  /\ UNCHANGED stack /\ Shift("entry")

\* a name, `_` or a scoped name starts an entry
CanShiftItem == pc = "entry" /\ Ahead \in ItemAtoms
ShiftItem ==
  /\ CanShiftItem
  /\ stack' = <<Node(Ahead, Ahead, <<>>)>>
  /\ UNCHANGED cur /\ Shift("after")

\* '(' of unit_type, tuple_type, tuple_pattern
CanOpenTuple == pc = "entry" /\ Ahead = "("
OpenTuple ==
  /\ CanOpenTuple
  /\ stack' = <<Node("(", "", <<>>)>>
  /\ UNCHANGED cur /\ Shift("tuple")

CanShiftElement == pc = "tuple" /\ Ahead \in ItemAtoms
ShiftElement ==
  /\ CanShiftElement
  /\ stack' = [i \in 1..Len(stack) |->
                 Node(Kind(stack[i]), Op(stack[i]),
                      Append(Kids(stack[i]), Node(Ahead, Ahead, <<>>)))]
  /\ UNCHANGED cur /\ Shift("element")

\* the element is reduced to a _type or a _pattern: where both are
\* possible the parse continues with both
CanReduceElement == pc = "element" /\ Ahead \in {",", ")"} /\ ExpandAll # <<>>
ReduceElement ==
  /\ CanReduceElement
  /\ stack' = ExpandAll
  /\ pc' = "element-end"
  /\ UNCHANGED <<read, la, cur, nops>>

CanShiftTupleComma == pc = "element-end" /\ Ahead = ","
ShiftTupleComma ==
  /\ CanShiftTupleComma
  /\ UNCHANGED <<stack, cur>> /\ Shift("tuple")

CanCloseTuple == pc \in {"tuple", "element-end"} /\ Ahead = ")"
CloseTuple ==
  /\ CanCloseTuple
  /\ UNCHANGED <<stack, cur>> /\ Shift("after")

\* parameter: the entry is the pattern, ':' and a type follow
CanReducePattern == pc = "after" /\ Ahead = ":" /\ Survivors("_pattern") # <<>>
ReducePattern ==
  /\ CanReducePattern
  /\ stack' = Survivors("_pattern")
  /\ UNCHANGED cur /\ Shift("type")

CanShiftType == pc = "type" /\ Ahead \in {"x", "a::b"}
ShiftType ==
  /\ CanShiftType
  /\ cur' = Node(ListKind, "",
                 Append(Kids(cur), Node("parameter", "", <<stack[1], TypeOf(la)>>)))
  /\ stack' = <<>>
  /\ Shift("sep")

\* the entry ends without a type
CanReduceEntry ==
  /\ pc = "after" /\ Ahead \in {",", ListCloser}
  /\ Survivors(EntryReading) # <<>>
ReduceEntry ==
  /\ CanReduceEntry
  /\ cur' = Node(ListKind, "", Kids(cur) \o Survivors(EntryReading))
  /\ stack' = <<>>
  /\ pc' = "sep"
  /\ UNCHANGED <<read, la, nops>>

CanShiftComma == pc = "sep" /\ Ahead = ","
ShiftComma ==
  /\ CanShiftComma
  /\ UNCHANGED <<stack, cur>> /\ Shift("entry")

CanCloseList == pc \in {"entry", "sep"} /\ Ahead = ListCloser
CloseList ==
  /\ CanCloseList
  /\ UNCHANGED <<stack, cur>> /\ Shift("done")

\* no production admits the lookahead
ParamError ==
  /\ ParamRunning /\ la # NoTok
  /\ ~CanOpenList /\ ~CanShiftItem /\ ~CanOpenTuple /\ ~CanShiftElement
  /\ ~CanReduceElement /\ ~CanShiftTupleComma /\ ~CanCloseTuple
  /\ ~CanReducePattern /\ ~CanShiftType /\ ~CanReduceEntry
  /\ ~CanShiftComma /\ ~CanCloseList
  /\ stack' = <<>>
  /\ pc' = "error"
  /\ UNCHANGED <<read, la, cur, nops>>

InitParams ==
  /\ read = <<>>
  /\ la = NoTok
  /\ stack = <<>>
  /\ cur = Nil
  /\ nops = 0
  /\ pc = "open"

NextParams ==
  \/ ScanParam
  \/ OpenList
  \/ ShiftItem
  \/ OpenTuple
  \/ ShiftElement
  \/ ReduceElement
  \/ ShiftTupleComma
  \/ CloseTuple
  \/ ReducePattern
  \/ ShiftType
  \/ ReduceEntry
  \/ ShiftComma
  \/ CloseList
  \/ ParamError

SpecParams == InitParams /\ [][NextParams]_vars

SpecParamsFair == SpecParams /\ WF_vars(NextParams)

\* more than one reading of the current entry is alive
Forked == Len(stack) > 1

\* the readings that are alive
LiveReadings == { Op(stack[i]) : i \in 1..Len(stack) }

\* a step that adds an alternative to a single live one
ForkStep == Len(stack) = 1 /\ Len(stack') > 1

TypeReadings == {"type_name", "scoped_type_name", "unit_type", "tuple_type"}

PatternReadings == {"name", "scoped_name", "tuple_pattern"}

\* the entries of the finished list that have no `: type`
Untyped ==
  { Kids(cur)[i] : i \in { j \in 1..Len(Kids(cur)) : Kind(Kids(cur)[j]) # "parameter" } }

\* the list has the single entry e, of kind k
OnlyEntry(open, e, close, k) ==
  read = <<open, e, close>> => Kind(Kids(cur)[1]) = k

(* C19 (as amended): an entry without `: type` in the parameters of a      *)
(* function is read as a type (a bare name as type name, a scoped name as  *)
(* scoped type name, `()` as unit type, a tuple as tuple type) and `_` as  *)
(* the token `_`; the pattern reading is produced only when `:` and a type *)
(* follow and in closure_parameters, where no type reading exists.         *)
C19_AnonymousParameterIsType ==
  pc = "done" =>
    /\ ListKind = "parameters"
         => \A e \in Untyped : Kind(e) \in TypeReadings \cup {"_"}
    /\ ListKind = "closure_parameters"
         => \A e \in Untyped : Kind(e) \in PatternReadings \cup {"_"}
    /\ OnlyEntry("(", "x", ")", "type_name")
    /\ OnlyEntry("(", "a::b", ")", "scoped_type_name")
    /\ OnlyEntry("(", "_", ")", "_")
    /\ read = <<"(", "(", ")", ")">> => Kind(Kids(cur)[1]) = "unit_type"
    /\ OnlyEntry("|", "x", "|", "name")
    /\ read = <<"(", "x", ":", "x", ")">>
         => Kids(cur) = <<Node("parameter", "",
                               <<Node("name", "x", <<>>), Node("type_name", "x", <<>>)>>)>>

\* `((x, x))`: the tuple, alive under both readings, ends as a tuple_type
C19_Witness ==
  /\ pc = "done" /\ read = <<"(", "(", "x", ",", "x", ")", ")">>
  /\ Kind(Kids(cur)[1]) = "tuple_type"

(* C19 as stated: an entry of a parameter list without `: type` that can   *)
(* be read as a type and as a pattern is read as the pattern.              *)
C19_AnonymousParameterIsPattern ==
  pc = "done" => \A e \in Untyped : Kind(e) \in PatternReadings \cup {"_"}

(***************************************************************************)
(* `for` binders.  `for` `<` lifetimes `>` is a for_lifetimes before a     *)
(* function_type and a type_parameters in higher_ranked_trait_bound and    *)
(* after `impl` in abstract_type.  `cur` starts as the position the type   *)
(* is read at ("type": a plain type position, "trait_bounds",              *)
(* "abstract_type") and ends as that node with its children; `stack`       *)
(* holds the live readings of the binder.                                  *)
(***************************************************************************)
MaxBinder == 9

BinderAtoms == {"for", "<", "'a", ",", ">", "T", "fn", "(", ")"}

BinderPositions == {"type", "trait_bounds", "abstract_type"}

\* for_lifetimes has no precedence
for_lifetimes_prec == 0

\* type_parameters without its precedence
type_parameters_prec_None == for_lifetimes_prec

\* type_parameters: prec(1, ...)
type_parameters_prec == 1

BinderPrec(kind) ==
  IF kind = "type_parameters" THEN type_parameters_prec ELSE for_lifetimes_prec

\* the binders a `for` can start at the position: for_lifetimes as the start
\* of a function_type everywhere, type_parameters after the `for` of
\* higher_ranked_trait_bound and of abstract_type
BinderKinds ==
  IF ListKind = "type" THEN {"for_lifetimes"}
  ELSE {"type_parameters", "for_lifetimes"}

\* the alternatives in the order of the rules
InRuleOrder(kinds, kids) ==
  SelectSeq(<<Node("type_parameters", "", kids), Node("for_lifetimes", "", kids)>>,
            LAMBDA n : Kind(n) \in kinds)

\* the binder is still read by all the rules that can start here
Undecided == Len(stack) = 1 /\ Kind(stack[1]) = "<"

BinderRunning == pc \notin {"done", "error"}

ScanBinder ==
  /\ BinderRunning /\ la = NoTok
  /\ IF nops < MaxBinder
       THEN \E atom \in BinderAtoms \cup {"end"} :
              /\ la' = <<atom>>
              /\ read' = IF atom = "end" THEN read ELSE Append(read, atom)
       ELSE la' = <<"end">> /\ read' = read
  /\ nops' = nops + 1
  /\ UNCHANGED <<stack, cur, pc>>

\* 'for'
CanShiftFor == pc = "start" /\ Ahead = "for"
ShiftFor ==
  /\ CanShiftFor
  /\ UNCHANGED <<stack, cur>> /\ Shift("for")

\* '<'
CanOpenBinder == pc = "for" /\ Ahead = "<"
OpenBinder ==
  /\ CanOpenBinder
  /\ stack' = <<Node("<", "", <<>>)>>
  /\ UNCHANGED cur /\ Shift("binder")

\* lifetime
CanShiftLifetime == pc = "binder" /\ Ahead = "'a"
ShiftLifetime ==
  /\ CanShiftLifetime
  /\ stack' = [i \in 1..Len(stack) |->
                 Node(Kind(stack[i]), "", Append(Kids(stack[i]), Node("lifetime", "a", <<>>)))]
  /\ UNCHANGED cur /\ Shift("lifetime")

\* `,` lifetime is reduced to the repetition of type_parameters or of
\* for_lifetimes: neither has a precedence, both stay alive
CanReduceRepeat ==
  /\ pc = "lifetime" /\ Ahead \in {",", ">"}
  /\ IF Undecided THEN Len(Kids(stack[1])) >= 2 ELSE FALSE
ReduceRepeat ==
  /\ CanReduceRepeat
  /\ stack' = InRuleOrder(BinderKinds, Kids(stack[1]))
  /\ UNCHANGED <<read, la, cur, nops, pc>>

CanShiftBinderComma == pc = "lifetime" /\ Ahead = "," /\ ~CanReduceRepeat
ShiftBinderComma ==
  /\ CanShiftBinderComma
  /\ UNCHANGED <<stack, cur>> /\ Shift("binder")

\* '>'
CanCloseBinder ==
  /\ Ahead = ">" /\ ~CanReduceRepeat
  /\ IF pc = "lifetime" THEN TRUE
     ELSE IF pc = "binder" THEN Kids(stack[1]) # <<>>
     ELSE FALSE
CloseBinder ==
  /\ CanCloseBinder
  /\ UNCHANGED <<stack, cur>> /\ Shift("closed")

\* the binder rules of the highest precedence
Preferred ==
  { k \in BinderKinds : \A other \in BinderKinds : BinderPrec(k) >= BinderPrec(other) }

\* the finished binder is reduced: of the rules that can end here the one
\* of higher precedence, all of them if the precedences are equal
CanReduceBinder == pc = "closed" /\ Ahead \in {"T", "fn"}
ReduceBinder ==
  /\ CanReduceBinder
  /\ stack' = IF Undecided THEN InRuleOrder(Preferred, Kids(stack[1])) ELSE stack
  /\ pc' = "type"
  /\ UNCHANGED <<read, la, cur, nops>>

\* _type_name, or the trait of a function_type
CanShiftBoundType == pc \in {"start", "type"} /\ Ahead = "T"
ShiftBoundType ==
  /\ CanShiftBoundType
  /\ UNCHANGED <<stack, cur>> /\ Shift("name")

\* 'fn' of a function_type
CanShiftFn == pc \in {"start", "type"} /\ Ahead = "fn"
ShiftFn ==
  /\ CanShiftFn
  /\ UNCHANGED <<stack, cur>> /\ Shift("fn")

\* parameters of a function_type
CanOpenParameters == pc \in {"name", "fn"} /\ Ahead = "("
OpenParameters ==
  /\ CanOpenParameters
  /\ UNCHANGED <<stack, cur>> /\ Shift("parameters")

CanCloseParameters == pc = "parameters" /\ Ahead = ")"
CloseParameters ==
  /\ CanCloseParameters
  /\ UNCHANGED <<stack, cur>> /\ Shift("function")

\* the type with binder b in front of it, at the position of cur
WithBinder(b, type) ==
  IF Kind(b) = "for_lifetimes"
    THEN <<Node("function_type", "", <<b>>)>>
  ELSE IF ListKind = "trait_bounds"
    THEN <<Node("higher_ranked_trait_bound", "", <<b, type>>)>>
  ELSE <<b, type>>

\* a type that is not a function type ends the input: a for_lifetimes
\* cannot stand before it
CanAcceptTypeName ==
  /\ pc = "name" /\ Ahead = "end"
  /\ IF stack = <<>> THEN TRUE
     ELSE \E i \in 1..Len(stack) : Kind(stack[i]) = "type_parameters"
AcceptTypeName ==
  /\ CanAcceptTypeName
  /\ cur' = Node(ListKind, "",
                 IF stack = <<>> THEN <<Node("type_name", "T", <<>>)>>
                 ELSE WithBinder(Node("type_parameters", "", Kids(stack[1])),
                                 Node("type_name", "T", <<>>)))
  /\ stack' = <<>>
  /\ pc' = "done"
  /\ UNCHANGED <<read, la, nops>>

\* a function type ends the input; where both readings of the binder are
\* complete parses the one that is kept is not fixed by the grammar
CanAcceptFunctionType == pc = "function" /\ Ahead = "end"
AcceptFunctionType ==
  /\ CanAcceptFunctionType
  /\ IF stack = <<>>
       THEN cur' = Node(ListKind, "", <<Node("function_type", "", <<>>)>>)
       ELSE \E i \in 1..Len(stack) :
              cur' = Node(ListKind, "", WithBinder(stack[i], Node("function_type", "", <<>>)))
  /\ stack' = <<>>
  /\ pc' = "done"
  /\ UNCHANGED <<read, la, nops>>

BinderError ==
  /\ BinderRunning /\ la # NoTok
  /\ ~CanShiftFor /\ ~CanOpenBinder /\ ~CanShiftLifetime /\ ~CanReduceRepeat
  /\ ~CanShiftBinderComma /\ ~CanCloseBinder /\ ~CanReduceBinder
  /\ ~CanShiftBoundType /\ ~CanShiftFn /\ ~CanOpenParameters
  /\ ~CanCloseParameters /\ ~CanAcceptTypeName /\ ~CanAcceptFunctionType
  /\ stack' = <<>>
  /\ pc' = "error"
  /\ UNCHANGED <<read, la, cur, nops>>

InitBinder ==
  /\ read = <<>>
  /\ la = NoTok
  /\ stack = <<>>
  /\ cur \in { Node(p, "", <<>>) : p \in BinderPositions }
  /\ nops = 0
  /\ pc = "start"

NextBinder ==
  \/ ScanBinder
  \/ ShiftFor
  \/ OpenBinder
  \/ ShiftLifetime
  \/ ReduceRepeat
  \/ ShiftBinderComma
  \/ CloseBinder
  \/ ReduceBinder
  \/ ShiftBoundType
  \/ ShiftFn
  \/ OpenParameters
  \/ CloseParameters
  \/ AcceptTypeName
  \/ AcceptFunctionType
  \/ BinderError

SpecBinder == InitBinder /\ [][NextBinder]_vars

\* the binders in the finished tree
Binders ==
  { n \in SubNodes(cur) : Kind(n) \in {"type_parameters", "for_lifetimes"} }

\* the finished type is a function type
IsFunctionType == \E n \in SubNodes(cur) : Kind(n) = "function_type"

(* C18 (as amended): after `for`, `<` and lifetimes form a for_lifetimes   *)
(* node only as the binder of a function type; in a plain type position    *)
(* this is the only reading.  In a trait bound and after `impl` the binder *)
(* is a type_parameters node when the type after it is not a function      *)
(* type and when it holds one lifetime; with several lifetimes before a    *)
(* function type both readings are complete parses.                        *)
C18_BinderByPosition ==
  pc = "done" =>
    \A b \in Binders :
      /\ Kind(b) = "for_lifetimes" => IsFunctionType
      /\ ListKind = "type" => Kind(b) = "for_lifetimes"
      /\ (ListKind # "type" /\ ~IsFunctionType) => Kind(b) = "type_parameters"
      /\ (ListKind # "type" /\ Len(Kids(b)) = 1) => Kind(b) = "type_parameters"

\* `T: for<'a> T`: the binder of a higher_ranked_trait_bound
C18_Witness ==
  /\ pc = "done" /\ read = <<"for", "<", "'a", ">", "T">>
  /\ cur = Node("trait_bounds", "",
                <<Node("higher_ranked_trait_bound", "",
                       <<Node("type_parameters", "", <<Node("lifetime", "a", <<>>)>>),
                         Node("type_name", "T", <<>>)>>)>>)

\* `for<'a> fn()` in a type position: a for_lifetimes
C18_WitnessFunctionType ==
  /\ pc = "done" /\ ListKind = "type" /\ read = <<"for", "<", "'a", ">", "fn", "(", ")">>
  /\ \E b \in Binders : Kind(b) = "for_lifetimes"

(* C18 as stated: after `for`, a `<` followed by a lifetime is always read *)
(* as for_lifetimes and never as type_parameters.                          *)
C18_AlwaysForLifetimes ==
  pc = "done" => \A b \in Binders : Kind(b) = "for_lifetimes"

(***************************************************************************)
(* Supertypes.  A supertype is a hidden rule that is a choice of symbols;  *)
(* where it is expected the tree holds the node of the alternative taken,  *)
(* hidden rules among the alternatives being replaced by theirs.  `stack`  *)
(* is the chain of hidden rules entered, starting at a supertype; `cur`    *)
(* the node produced, with "named" or "anonymous" in its second field.     *)
(***************************************************************************)
supertypes ==
  {"_expression", "_type", "_literal", "_literal_pattern",
   "_declaration_statement", "_pattern"}

\* rules whose name starts with an underscore produce no node of their own
HiddenRules ==
  supertypes \cup {"_expression_except_range", "_expression_ending_with_block",
                   "_reserved_keyword", "_type_name"}

Literals ==
  {"string_literal", "raw_string_literal", "char_literal", "boolean_literal",
   "integer_literal", "float_literal"}

\* the symbols of the rule's choice
Members(rule) ==
  CASE rule = "_expression" -> {"_expression_except_range", "range_expression"}
    [] rule = "_expression_except_range" ->
         {"unary_expression", "reference_expression", "try_expression",
          "binary_expression", "assignment_expression", "compound_assignment_expr",
          "type_cast_expression", "call_expression", "return_expression",
          "yield_expression", "_literal", "name", "_reserved_keyword", "self",
          "scoped_name", "generic_function", "await_expression", "field_expression",
          "array_expression", "tuple_expression", "macro_invocation",
          "unit_expression", "break_expression", "continue_expression",
          "index_expression", "metavariable", "closure_expression",
          "parenthesized_expression", "struct_expression",
          "_expression_ending_with_block"}
    [] rule = "_expression_ending_with_block" ->
         {"unsafe_block", "async_block", "gen_block", "try_block", "block",
          "if_expression", "match_expression", "while_expression",
          "loop_expression", "for_expression", "const_block"}
    [] rule = "_type" ->
         {"abstract_type", "reference_type", "metavariable", "pointer_type",
          "generic_type", "scoped_type_name", "tuple_type", "unit_type",
          "array_type", "function_type", "self_type", "_type_name",
          "macro_invocation", "never_type", "dynamic_type", "bounded_type",
          "removed_trait_bound"}
    [] rule = "_literal" -> Literals
    [] rule = "_literal_pattern" -> Literals \cup {"negative_literal"}
    [] rule = "_declaration_statement" ->
         {"const_item", "macro_invocation", "macro_definition", "empty_statement",
          "attribute_item", "inner_attribute_item", "mod_item", "foreign_mod_item",
          "struct_item", "union_item", "enum_item", "type_item", "function_item",
          "function_signature_item", "impl_item", "trait_item", "associated_type",
          "let_declaration", "use_declaration", "extern_crate_declaration",
          "static_item"}
    [] rule = "_pattern" ->
         {"_literal_pattern", "name", "scoped_name", "tuple_pattern",
          "tuple_struct_pattern", "struct_pattern", "_reserved_keyword",
          "ref_pattern", "slice_pattern", "captured_pattern", "reference_pattern",
          "remaining_field_pattern", "mut_pattern", "range_pattern", "or_pattern",
          "const_block", "macro_invocation"}
    [] OTHER -> {}

\* the string tokens of the rule's choice
Tokens(rule) == IF rule = "_pattern" THEN {"_"} ELSE {}

\* a hidden rule keeps its own name as node kind
Aliased_None(rule) == rule

\* alias(..., $.name) of _reserved_keyword, alias($.name, $.type_name) of _type_name
Aliased(rule) ==
  CASE rule = "_reserved_keyword" -> "name"
    [] rule = "_type_name" -> "type_name"
    [] OTHER -> rule

IsAlias(rule) == rule \in {"_reserved_keyword", "_type_name"}

Expanding == pc = "expand" /\ stack # <<>>

\* a hidden choice among the alternatives: its alternatives stand for it
Descend ==
  /\ Expanding
  /\ \E m \in Members(Top) :
       /\ m \in HiddenRules /\ ~IsAlias(m)
       /\ stack' = Append(stack, m)
  /\ UNCHANGED <<read, la, cur, nops, pc>>

\* a visible rule among the alternatives: its node
ProduceNode ==
  /\ Expanding
  /\ \E m \in Members(Top) :
       /\ m \notin HiddenRules
       /\ cur' = Node(m, "named", <<>>)
  /\ pc' = "done"
  /\ UNCHANGED <<read, la, stack, nops>>

\* a hidden rule that is an alias: the node has the alias as kind
ProduceAlias ==
  /\ Expanding
  /\ \E m \in Members(Top) :
       /\ IsAlias(m)
       /\ cur' = Node(Aliased(m), "named", <<>>)
  /\ pc' = "done"
  /\ UNCHANGED <<read, la, stack, nops>>

\* a string among the alternatives: an anonymous node
ProduceToken ==
  /\ Expanding
  /\ \E t \in Tokens(Top) : cur' = Node(t, "anonymous", <<>>)
  /\ pc' = "done"
  /\ UNCHANGED <<read, la, stack, nops>>

InitSuper ==
  /\ read = <<>>
  /\ la = NoTok
  /\ stack \in { <<s>> : s \in supertypes }
  /\ cur = Nil
  /\ nops = 0
  /\ pc = "expand"

NextSuper ==
  \/ Descend
  \/ ProduceNode
  \/ ProduceAlias
  \/ ProduceToken

SpecSuper == InitSuper /\ [][NextSuper]_vars

\* the supertype that was expected
ExpectedSupertype == stack[1]

(* C20 (as amended): where a supertype is expected the tree holds one node *)
(* of a concrete kind, never a node of a supertype or of another hidden    *)
(* rule; the node is named, except that _pattern also admits the anonymous *)
(* token `_`; a literal is one of the six literal kinds, a literal pattern *)
(* one of these or a negative_literal.                                     *)
C20_SupertypeYieldsConcreteNode ==
  pc = "done" =>
    /\ Kind(cur) \notin HiddenRules
    /\ Op(cur) = "anonymous" <=> (ExpectedSupertype = "_pattern" /\ Kind(cur) = "_")
    /\ ExpectedSupertype = "_literal" => Kind(cur) \in Literals
    /\ ExpectedSupertype = "_literal_pattern"
         => Kind(cur) \in Literals \cup {"negative_literal"}

\* a type name where a type is expected: a type_name node, through _type_name
C20_Witness ==
  /\ pc = "done" /\ ExpectedSupertype = "_type"
  /\ cur = Node("type_name", "named", <<>>)

\* `_` where a pattern is expected
C20_WitnessWildcard ==
  pc = "done" /\ ExpectedSupertype = "_pattern" /\ cur = Node("_", "anonymous", <<>>)

(* C20 as stated: where a supertype is expected the tree holds one node of *)
(* a concrete named kind: never the supertype itself, never an anonymous   *)
(* token.                                                                  *)
C20_SupertypeNeverAnonymous ==
  pc = "done" => (Kind(cur) \notin HiddenRules /\ Op(cur) = "named")

(***************************************************************************)
(* Bracketed expressions: array_expression, parenthesized_expression,      *)
(* tuple_expression, unit_expression.  `stack` holds one frame for each    *)
(* bracket that is open; a frame records the position inside the rule      *)
(* (`at`), the children read so far and the items of the rule that are     *)
(* alive: pairs of a form of the rule and the number of leading            *)
(* attribute_items the form takes into the repeat of the rule itself       *)
(* (the others go into the repeat of the first element).  `cur` is the     *)
(* finished outermost expression.  An attribute_item is the atom "#[a]".   *)
(***************************************************************************)
MaxGroup == 7

GroupAtoms == {"[", "]", "(", ")", ",", ";", "x", "#[a]"}

\* the two alternatives of the choice of array_expression
ArrayForms == {"repeat", "list"}

ParenForms == {"unit_expression", "parenthesized_expression", "tuple_expression"}

GroupCloser(open) == IF open = "[" THEN "]" ELSE ")"

\* a child of a node: the field it is under ("" for none) and the node
Child(field, n) == <<field, n>>

TokenChild(tok) == Child("", Node(tok, tok, <<>>))

\* the list form with `;` among the tokens that follow its first element
FirstFollow_ListBeforeSemicolon(form) ==
  CASE form = "repeat" -> {";"}
    [] form = "list" -> {",", "]", ";"}
    [] form = "parenthesized_expression" -> {")"}
    [] form = "tuple_expression" -> {","}
    [] OTHER -> {}

\* tuple_expression without the comma its first element requires
FirstFollow_TupleWithoutComma(form) ==
  CASE form = "repeat" -> {";"}
    [] form = "list" -> {",", "]"}
    [] form = "parenthesized_expression" -> {")"}
    [] form = "tuple_expression" -> {",", ")"}
    [] OTHER -> {}

\* the tokens that can follow the first element of a form
FirstFollow(form) ==
  CASE form = "repeat" -> {";"}
    [] form = "list" -> {",", "]"}
    [] form = "parenthesized_expression" -> {")"}
    [] form = "tuple_expression" -> {","}
    [] OTHER -> {}

\* the forms that start with repeat(attribute_item)
RuleAttributes(form) == form \in {"repeat", "list", "tuple_expression"}

\* the forms whose elements start with repeat(attribute_item)
ElementAttributes(form) == form = "list"

\* the forms that can end without an element
MayBeEmpty(form) == form \in {"list", "unit_expression"}

Frame(open, at, items, attrs, kids) ==
  [open |-> open, at |-> at, items |-> items, attrs |-> attrs, kids |-> kids]

Form(item) == item[1]

Outer(item) == item[2]

Forms(f) == { Form(i) : i \in f.items }

\* the parse versions of a frame: one for each split of the leading
\* attribute_items between the two repeats
Versions(f) == { Outer(i) : i \in f.items }

GroupRunning == pc = "run"

TopAt == IF stack = <<>> THEN "" ELSE Top.at

TopOpen == IF stack = <<>> THEN "" ELSE Top.open

\* an expression can start here
Expecting == IF stack = <<>> THEN TRUE ELSE TopAt \in {"open", "sep", "attrs", "semi"}

\* the items of frame f that admit token tok at the position of f
Admitting(f, tok) ==
  { i \in f.items :
      CASE f.at = "open" ->
             /\ MayBeEmpty(Form(i)) /\ Outer(i) = f.attrs
             /\ tok \in (IF Form(i) = "list" THEN {",", "]"} ELSE {")"})
        [] f.at = "first" -> tok \in FirstFollow(Form(i))
        [] f.at = "next" ->
             tok \in (IF Form(i) = "list" THEN {",", "]"} ELSE {",", ")"})
        [] f.at = "sep" -> tok = GroupCloser(f.open)
        [] f.at = "lone" -> tok = "]"
        [] f.at = "length" -> tok = "]"
        [] OTHER -> FALSE }

\* the items of frame f after one more leading attribute_item: the item
\* with every attribute in the repeat of the rule takes it there, an item
\* whose elements take attributes takes it into the first element
WithAttribute(f) ==
  { <<Form(i), Outer(i) + 1>> :
      i \in { j \in f.items : RuleAttributes(Form(j)) /\ Outer(j) = f.attrs } }
  \cup { i \in f.items : ElementAttributes(Form(i)) }

\* the items of frame f that have an element at the position of f
WithElement(f) ==
  IF f.at = "open" THEN { i \in f.items : Form(i) # "unit_expression" }
  ELSE f.items

ScanGroup ==
  /\ GroupRunning /\ la = NoTok
  /\ IF nops < MaxGroup
       THEN \E atom \in GroupAtoms \cup {"end"} :
              /\ la' = <<atom>>
              /\ read' = IF atom = "end" THEN read ELSE Append(read, atom)
       ELSE la' = <<"end">> /\ read' = read
  /\ nops' = nops + 1
  /\ UNCHANGED <<stack, cur, pc>>

Shifted == la' = NoTok /\ UNCHANGED <<read, nops>>

\* the position after the element read at position at
AfterElement(at) ==
  CASE at = "open" -> "first"
    [] at = "semi" -> "length"
    [] OTHER -> "next"

\* expression n is complete: it is the outermost one or a child of the
\* frame on top of rest, the `length` when it follows `;`
Complete(n, rest) ==
  IF rest = <<>>
    THEN cur' = n /\ stack' = <<>> /\ pc' = "done"
  ELSE
    LET f == rest[Len(rest)] IN
      /\ stack' = Append(SubSeq(rest, 1, Len(rest) - 1),
                         Frame(f.open, AfterElement(f.at), WithElement(f), f.attrs,
                               Append(f.kids,
                                      Child(IF f.at = "semi" THEN "length" ELSE "", n))))
      /\ UNCHANGED <<cur, pc>>

CanShiftGroupElement == Expecting /\ Ahead = "x"
ShiftGroupElement ==
  /\ GroupRunning /\ CanShiftGroupElement
  /\ Complete(Node("name", "x", <<>>), stack)
  /\ Shifted

\* '[' of array_expression
CanOpenArray == Expecting /\ Ahead = "["
OpenArray ==
  /\ GroupRunning /\ CanOpenArray
  /\ stack' = Append(stack, Frame("[", "open", {<<form, 0>> : form \in ArrayForms},
                                  0, <<TokenChild("[")>>))
  /\ UNCHANGED <<cur, pc>> /\ Shifted

\* '(' of unit_expression, parenthesized_expression, tuple_expression
CanOpenGroup == Expecting /\ Ahead = "("
OpenGroup ==
  /\ GroupRunning /\ CanOpenGroup
  /\ stack' = Append(stack, Frame("(", "open", {<<form, 0>> : form \in ParenForms},
                                  0, <<TokenChild("(")>>))
  /\ UNCHANGED <<cur, pc>> /\ Shifted

WithTop(f) == Append(Pop, f)

\* an attribute_item before the first element
CanShiftLeadingAttribute ==
  TopAt = "open" /\ Ahead = "#[a]" /\ WithAttribute(Top) # {}
ShiftLeadingAttribute ==
  /\ GroupRunning /\ CanShiftLeadingAttribute
  /\ stack' = WithTop(Frame(Top.open, "open", WithAttribute(Top), Top.attrs + 1,
                            Append(Top.kids, Child("", Node("attribute_item", "", <<>>)))))
  /\ UNCHANGED <<cur, pc>> /\ Shifted

\* an attribute_item before a later element
CanShiftElementAttribute ==
  /\ TopAt \in {"sep", "attrs"} /\ Ahead = "#[a]"
  /\ \E i \in Top.items : ElementAttributes(Form(i))
ShiftElementAttribute ==
  /\ GroupRunning /\ CanShiftElementAttribute
  /\ stack' = WithTop(Frame(Top.open, "attrs", Top.items, Top.attrs,
                            Append(Top.kids, Child("", Node("attribute_item", "", <<>>)))))
  /\ UNCHANGED <<cur, pc>> /\ Shifted

\* ';' of array_expression
CanShiftLengthSemicolon == TopAt = "first" /\ Ahead = ";" /\ Admitting(Top, ";") # {}
ShiftLengthSemicolon ==
  /\ GroupRunning /\ CanShiftLengthSemicolon
  /\ stack' = WithTop(Frame(Top.open, "semi", Admitting(Top, ";"), Top.attrs,
                            Append(Top.kids, TokenChild(";"))))
  /\ UNCHANGED <<cur, pc>> /\ Shifted

\* ',' after an element, or the optional ',' of an array without elements
CanShiftGroupComma ==
  TopAt \in {"open", "first", "next"} /\ Ahead = "," /\ Admitting(Top, ",") # {}
ShiftGroupComma ==
  /\ GroupRunning /\ CanShiftGroupComma
  /\ stack' = WithTop(Frame(Top.open, IF TopAt = "open" THEN "lone" ELSE "sep",
                            Admitting(Top, ","), Top.attrs,
                            Append(Top.kids, TokenChild(","))))
  /\ UNCHANGED <<cur, pc>> /\ Shifted

\* the kind of the node of a form
KindOf(form) == IF form \in ArrayForms THEN "array_expression" ELSE form

\* ']' or ')': the frame is reduced to the node of a form that is alive
CanCloseGroup ==
  /\ stack # <<>> /\ Ahead = GroupCloser(TopOpen)
  /\ Admitting(Top, Ahead) # {}
CloseGroup ==
  /\ GroupRunning /\ CanCloseGroup
  /\ \E form \in { Form(i) : i \in Admitting(Top, Ahead) } :
       Complete(Node(KindOf(form), "", Append(Top.kids, TokenChild(Ahead))), Pop)
  /\ Shifted

\* no rule admits the lookahead
GroupError ==
  /\ GroupRunning /\ la # NoTok
  /\ ~CanShiftGroupElement /\ ~CanOpenArray /\ ~CanOpenGroup
  /\ ~CanShiftLeadingAttribute /\ ~CanShiftElementAttribute
  /\ ~CanShiftLengthSemicolon /\ ~CanShiftGroupComma /\ ~CanCloseGroup
  /\ pc' = "error"
  /\ UNCHANGED <<read, la, stack, cur, nops>>

InitGroup ==
  /\ read = <<>>
  /\ la = NoTok
  /\ stack = <<>>
  /\ cur = Nil
  /\ nops = 0
  /\ pc = "run"

NextGroup ==
  \/ ScanGroup
  \/ ShiftGroupElement
  \/ OpenArray
  \/ OpenGroup
  \/ ShiftLeadingAttribute
  \/ ShiftElementAttribute
  \/ ShiftLengthSemicolon
  \/ ShiftGroupComma
  \/ CloseGroup
  \/ GroupError

SpecGroup == InitGroup /\ [][NextGroup]_vars

\* the frames of the brackets opened by open
FramesOf(open) == { stack[i] : i \in { j \in 1..Len(stack) : stack[j].open = open } }

ChildField(c) == c[1]

ChildNode(c) == c[2]

GroupTokens == {"[", "]", "(", ")", ",", ";"}

IsElement(c) == Kind(ChildNode(c)) \notin GroupTokens \cup {"attribute_item"}

\* the nodes under the children kids, those children included
RECURSIVE NodesUnder(_)
NodesUnder(kids) ==
  UNION { {ChildNode(kids[i])} \cup NodesUnder(Kids(ChildNode(kids[i]))) : i \in 1..Len(kids) }

\* every expression that has been completed
Completed ==
  (IF cur = Nil THEN {} ELSE {cur} \cup NodesUnder(Kids(cur)))
  \cup UNION { NodesUnder(stack[i].kids) : i \in 1..Len(stack) }

ElementsOf(n) == SelectSeq(Kids(n), IsElement)

TokensOf(n, tok) == SelectSeq(Kids(n), LAMBDA c : Kind(ChildNode(c)) = tok)

FieldsOf(n, field) == SelectSeq(Kids(n), LAMBDA c : ChildField(c) = field)

\* the child after the first element of n
AfterFirst(n) ==
  LET first == CHOOSE i \in 1..Len(Kids(n)) :
                 /\ IsElement(Kids(n)[i])
                 /\ \A j \in 1..(i - 1) : ~IsElement(Kids(n)[j])
  IN Kind(ChildNode(Kids(n)[first + 1]))

\* the forms of frame f that can be reduced on its closing bracket
Closing(f) == { Form(i) : i \in Admitting(f, GroupCloser(f.open)) }

(* C21: an array expression is resolved by the token that follows its     *)
(* first element: up to that token both forms are alive, `;` leaves the   *)
(* repeat form alone, which has exactly one element and a `length` field, *)
(* `,` or `]` leave the list form alone, which has no `length` field; no  *)
(* input is reduced as both forms, also when attributes precede the first *)
(* element, where the parse versions the declared conflict allows differ  *)
(* only in the repeat the attributes are counted to.                      *)
C21_ArrayResolvedAfterFirstElement ==
  /\ \A f \in FramesOf("[") :
       /\ f.at \in {"open", "first"} => Forms(f) = ArrayForms
       /\ f.at \in {"semi", "length"} => Forms(f) = {"repeat"} /\ Versions(f) = {f.attrs}
       /\ f.at \in {"sep", "attrs", "next", "lone"} => Forms(f) = {"list"}
       /\ Cardinality(Closing(f)) <= 1
       /\ Cardinality(Versions(f)) > 1 => {"array_expression"} \in conflicts
  /\ \A n \in Completed :
       (Kind(n) = "array_expression" /\ ElementsOf(n) # <<>>) =>
         /\ AfterFirst(n) \in {";", ",", "]"}
         /\ AfterFirst(n) = ";" =>
              /\ Len(ElementsOf(n)) = 2
              /\ Len(FieldsOf(n, "length")) = 1
              /\ ElementsOf(n)[2] = FieldsOf(n, "length")[1]
              /\ TokensOf(n, ",") = <<>>
         /\ AfterFirst(n) \in {",", "]"} =>
              /\ FieldsOf(n, "length") = <<>>
              /\ TokensOf(n, ";") = <<>>
  /\ (pc = "done" /\ read = <<"[", "#[a]", "x", ";", "x", "]">>) =>
       cur = Node("array_expression", "",
                  <<TokenChild("["), Child("", Node("attribute_item", "", <<>>)),
                    Child("", Node("name", "x", <<>>)), TokenChild(";"),
                    Child("length", Node("name", "x", <<>>)), TokenChild("]")>>)

\* `[#[a] x; x]` is read as the repeat form
C21_Witness ==
  /\ pc = "done" /\ read = <<"[", "#[a]", "x", ";", "x", "]">>
  /\ Len(FieldsOf(cur, "length")) = 1

\* `[#[a] x` before `,`: two parse versions, both of them the list form
\* once `,` is read
C21_WitnessList ==
  /\ read = <<"[", "#[a]", "x", ",">> /\ la = NoTok /\ pc = "run"
  /\ Versions(Top) = {0, 1} /\ Forms(Top) = {"list"}

CountOf(n, tok) == Len(TokensOf(n, tok))

\* the inputs the three forms are stated for, with the kind of each
ParenShapes ==
  { <<<<"(", ")">>, "unit_expression">>,
    <<<<"(", "x", ")">>, "parenthesized_expression">>,
    <<<<"(", "x", ",", ")">>, "tuple_expression">>,
    <<<<"(", "x", ",", "x", ")">>, "tuple_expression">>,
    <<<<"(", "x", ",", "x", ",", ")">>, "tuple_expression">>,
    <<<<"(", "(", ")", ",", "[", "]", ")">>, "tuple_expression">> }

(* C22: the three parenthesised forms are mutually exclusive and          *)
(* exhaustive by the number of commas: no input is reduced as two of      *)
(* them, `()` is a unit_expression, one expression without a comma a      *)
(* parenthesized_expression, an expression followed by a comma (with or   *)
(* without more expressions and a trailing comma) a tuple_expression, and *)
(* a tuple_expression has at least one expression and one comma.          *)
C22_ParenFormsByCommaCount ==
  /\ \A f \in FramesOf("(") : Cardinality(Closing(f)) <= 1
  /\ \A n \in Completed :
       Kind(n) \in ParenForms =>
         /\ Kind(n) = "unit_expression" <=> ElementsOf(n) = <<>>
         /\ Kind(n) = "parenthesized_expression"
              <=> (Len(ElementsOf(n)) = 1 /\ CountOf(n, ",") = 0)
         /\ Kind(n) = "tuple_expression" <=> CountOf(n, ",") >= 1
         /\ Kind(n) = "tuple_expression"
              => (Len(ElementsOf(n)) >= 1 /\ AfterFirst(n) = ",")
         /\ Kind(n) = "tuple_expression"
              => CountOf(n, ",") \in {Len(ElementsOf(n)) - 1, Len(ElementsOf(n))}
  /\ \A s \in ParenShapes :
       /\ (pc = "error" /\ la # <<"end">>) => ~IsPrefix(read, s[1])
       /\ (pc = "done" /\ read = s[1]) => Kind(cur) = s[2]

\* `(x, x,)` is read as a tuple_expression of two expressions and two commas
C22_Witness ==
  /\ pc = "done" /\ read = <<"(", "x", ",", "x", ",", ")">>
  /\ Kind(cur) = "tuple_expression" /\ CountOf(cur, ",") = 2

\* `(x)` is read as a parenthesized_expression
C22_WitnessParenthesized ==
  /\ pc = "done" /\ read = <<"(", "x", ")">>
  /\ Kind(cur) = "parenthesized_expression"

=============================================================================
